---- MODULE Spec2Model ----
(***************************************************************************)
(* Model of the auto-ranged put meta request of aws-c-s3                   *)
(* (source/s3_auto_ranged_put.c): the multipart-upload state machine       *)
(* driven by update / prepare_request / request_finished / pause, with the *)
(* finish-result plumbing of the meta-request base.                        *)
(***************************************************************************)
EXTENDS Integers, Sequences, FiniteSets, TLC

\* ------------------------------------------------------------------ bounds
\* Largest total_num_parts explored.
MaxParts == 2
\* Largest num_times_prepared of one request (a request is retried at most
\* MaxTimesPrepared - 1 times).
MaxTimesPrepared == 2
\* Number of part infos the server puts in one ListParts page.
MaxPartsPerPage == 1

\* ------------------------------------------------------------- error codes
AWS_ERROR_SUCCESS == "SUCCESS"
AWS_ERROR_S3_PAUSED == "PAUSED"
AWS_ERROR_S3_RESUME_FAILED == "RESUME_FAILED"
AWS_ERROR_S3_RESUMED_PART_CHECKSUM_MISMATCH == "RESUMED_PART_CHECKSUM_MISMATCH"
AWS_ERROR_S3_MISSING_UPLOAD_ID == "MISSING_UPLOAD_ID"
AWS_ERROR_S3_LIST_PARTS_PARSE_FAILED == "LIST_PARTS_PARSE_FAILED"
AWS_ERROR_S3_CANCELED == "CANCELED"
\* A pass-through error of the HTTP / retry layer (e.g. a 500 after retries).
HTTP_ERROR == "HTTP_ERROR"
\* The error the user's headers callback raises (aws_last_error_or_unknown).
CALLBACK_ERROR == "CALLBACK_ERROR"
\* A failed read of the body stream during preparation.
STREAM_READ_ERROR == "STREAM_READ_ERROR"

\* ------------------------------------------------------------ request tags
TAG_LIST_PARTS == "LIST_PARTS"
TAG_CREATE_MULTIPART_UPLOAD == "CREATE_MULTIPART_UPLOAD"
TAG_PART == "PART"
TAG_COMPLETE_MULTIPART_UPLOAD == "COMPLETE_MULTIPART_UPLOAD"
TAG_ABORT_MULTIPART_UPLOAD == "ABORT_MULTIPART_UPLOAD"
TAG_NONE == "NONE"

RequestTags ==
    {TAG_LIST_PARTS, TAG_CREATE_MULTIPART_UPLOAD, TAG_PART,
     TAG_COMPLETE_MULTIPART_UPLOAD, TAG_ABORT_MULTIPART_UPLOAD}

\* update flags
FLAG_NONE == "NONE"
FLAG_CONSERVATIVE == "CONSERVATIVE"
UpdateFlags == {FLAG_NONE, FLAG_CONSERVATIVE}

\* A null pointer (upload_id, resume token).
NULL == "NULL"
\* A null list_parts_continuation_token; the token of a page is the number
\* of its last part (the part-number-marker of the next page).
NO_TOKEN == 0
\* The upload id the server issued (fresh) or the resume token carried.
UPLOAD_ID == "upload-id"
\* What a read through a null upload_id may produce when it does not trap.
GARBAGE == "garbage"
\* Where the process can die: the fatal assertion of update's part loop, the
\* fatal assertion on upload_id in prepare_request, the read of a null
\* upload_id in pause.
NO_CRASH == "none"
CRASH_UPDATE_ASSERT == "update: next_part_number <= total_num_parts"
CRASH_PREPARE_ASSERT == "prepare_request: upload_id"
CRASH_PAUSE_NULL_UPLOAD_ID == "pause: read of null upload_id"
\* The process died in s_process_part_info, storing a checksum outside
\* checksums_list.
CRASH_PROCESS_PART_INFO == "s_process_part_info: checksums_list out of bounds"
\* The type literal of a put's resume token.
PUT_OBJECT_TYPE == "AWS_S3_META_REQUEST_TYPE_PUT_OBJECT"
\* A null resume token.
NullToken ==
    [type |-> NULL, multipart_upload_id |-> NULL, partition_size |-> 0,
     total_num_parts |-> 0]
\* The null ETag of an empty etag_list slot; the ETag of part k is k.
NO_ETAG == 0
\* A request_body that was not read yet; the body read from the stream is
\* named by the part of the stream it holds.
NO_BODY == 0
\* An empty checksum buffer (len = 0).
NO_CHECKSUM == <<>>

VARIABLES
    \* ---- construction options (constant after construction)
    resume_token,            \* options->resume_token != NULL
    total_num_parts,         \* synced_data.total_num_parts
    part_size,               \* meta_request->part_size (MiB)
    checksum_algorithm,      \* checksum_config.checksum_algorithm
    server_parts,            \* the server's view of each part before the put
    content_length,          \* auto_ranged_put->content_length (MiB)
    options_resume_token,    \* the JSON of options->resume_token
    construction,            \* what the constructor has returned
    client,                  \* the aws_s3_client that owns the put
    \* ---- meta-request base
    finish_result,           \* [set, error_code]
    headers_callback,        \* meta_request->headers_callback != NULL
    \* ---- auto_ranged_put
    upload_id,
    flags_sent,              \* the *_sent flags, by tag
    flags_completed,         \* the *_completed flags, by tag
    error_codes,             \* the *_error_code fields, by field name
    num_parts_sent,
    num_parts_completed,
    num_parts_successful,
    num_parts_failed,
    etag_list,
    checksums_list,
    list_parts_continuation_token,
    next_part_number,        \* threaded_update_data.next_part_number
    num_parts_read_from_stream, \* prepare_data.num_parts_read_from_stream
    stream_position,         \* parts the body stream has been read past
    \* ---- requests created by update and not yet finished
    requests,
    crash,                   \* where the process died (NO_CRASH: it runs)
    \* ---- observations of the calls made so far
    emitted,                 \* number of requests update created, by tag
    parts_emitted,           \* part numbers of the PART requests, in order
    finish_dispatched,       \* update has called aws_s3_meta_request_finish
    out_resume_token,        \* what the last pause call wrote
    pause_log,               \* facts about the pause calls made so far
    complete_succeeded,      \* request_finished saw COMPLETE with SUCCESS
    bytes_transferred        \* sum of bytes_transferred over the progress callbacks

cfg_vars ==
    <<resume_token, total_num_parts, part_size, checksum_algorithm, server_parts,
      content_length, options_resume_token, construction, client>>
put_vars ==
    <<upload_id, flags_sent, flags_completed, error_codes, num_parts_sent,
      num_parts_completed, num_parts_successful, num_parts_failed, etag_list,
      checksums_list, list_parts_continuation_token,
      next_part_number, num_parts_read_from_stream, stream_position>>
obs_vars ==
    <<emitted, parts_emitted, finish_dispatched, out_resume_token, pause_log,
      complete_succeeded, bytes_transferred>>
vars ==
    <<cfg_vars, finish_result, headers_callback, put_vars, requests, crash,
      obs_vars>>

Parts == 1..total_num_parts

\* ------------------------------------------------- meta-request base
\* aws_s3_meta_request_has_finish_result_synced
HasFinishResult(fr) == fr.set

\* aws_s3_meta_request_set_fail_synced: the first result is kept.
SetFailSynced(fr, error_code) ==
    IF fr.set THEN fr ELSE [set |-> TRUE, error_code |-> error_code]

\* aws_s3_meta_request_set_success_synced: the first result is kept.
SetSuccessSynced(fr) ==
    IF fr.set THEN fr ELSE [set |-> TRUE, error_code |-> AWS_ERROR_SUCCESS]

\* ------------------------------------------------------------ requests
\* aws_s3_request_new: a request as update creates it.
NewRequest(tag, part_number, always_send) ==
    [tag |-> tag, part_number |-> part_number, always_send |-> always_send,
     num_times_prepared |-> 0, prepared |-> FALSE, marker |-> NO_TOKEN,
     request_body_size |-> 0, request_body |-> NO_BODY]

NoRequest == [work_remaining |-> TRUE, tag |-> TAG_NONE, part_number |-> 0,
              always_send |-> FALSE, next |-> next_part_number, fatal |-> FALSE]

\* ------------------------------------------------------ construction
\* What aws_s3_meta_request_auto_ranged_put_new has returned so far: nothing
\* yet, the meta request, or NULL with the error raised.
NOT_CONSTRUCTED == "not constructed"
CONSTRUCTED == "constructed"
AWS_ERROR_INVALID_ARGUMENT == "INVALID_ARGUMENT"
\* The type literal of a get's resume token.
GET_OBJECT_TYPE == "AWS_S3_META_REQUEST_TYPE_GET_OBJECT"
\* The smallest part size of a multipart upload, in MiB.
g_s3_min_upload_part_size == 5
\* The largest number of parts of a multipart upload.
g_s3_max_num_upload_parts == 10000

\* A node aws_json_value_get_from_object returns: none (the field is
\* missing), a string, or a number (a double: whole + tenths / 10).
JsonMissing == [kind |-> "missing", str |-> "", whole |-> 0, tenths |-> 0]
JsonString(s) == [kind |-> "string", str |-> s, whole |-> 0, tenths |-> 0]
JsonNumber(whole, tenths) ==
    [kind |-> "number", str |-> "", whole |-> whole, tenths |-> tenths]

\* The four fields of a resume token.
JsonToken(type, id, partition_size, num_parts) ==
    [type |-> type, multipart_upload_id |-> id,
     partition_size |-> partition_size, total_num_parts |-> num_parts]

\* options->resume_token == NULL.
NoJsonToken == JsonToken(JsonMissing, JsonMissing, JsonMissing, JsonMissing)

\* The (size_t) and (uint32_t) casts of a double that is not negative and
\* within the range of the type: the fraction is dropped.
CastToUnsigned(number) == number.whole

\* The cast that rounds to the nearest integer.
CastToUnsigned_Rounds(number) ==
    IF number.tenths >= 5 THEN number.whole + 1 ELSE number.whole

\* s_parse_resume_info_from_token: the error raised (SUCCESS: none) and the
\* three out parameters.
ParseResumeInfoFromToken(token) ==
    LET invalid == [error |-> AWS_ERROR_INVALID_ARGUMENT, upload_id |-> NULL,
                    part_size |-> 0, total_num_parts |-> 0]
    IN
    IF \/ token.multipart_upload_id.kind = "missing"
       \/ token.partition_size.kind = "missing"
       \/ token.total_num_parts.kind = "missing"
       \/ token.type.kind = "missing"
       \/ token.partition_size.kind # "number"
       \/ token.total_num_parts.kind # "number"
       \/ token.multipart_upload_id.kind # "string"
       \/ token.type.kind # "string"
    THEN invalid
    ELSE IF token.type.str # PUT_OBJECT_TYPE THEN invalid
    ELSE IF CastToUnsigned(token.partition_size) < g_s3_min_upload_part_size
    THEN invalid
    ELSE IF CastToUnsigned(token.total_num_parts) > g_s3_max_num_upload_parts
    THEN invalid
    ELSE [error |-> AWS_ERROR_SUCCESS,
          upload_id |-> token.multipart_upload_id.str,
          part_size |-> CastToUnsigned(token.partition_size),
          total_num_parts |-> CastToUnsigned(token.total_num_parts)]

\* The number of parts s_load_persistable_state expects for the body.
ExpectedNumParts(length, size) ==
    (length \div size) + (IF length % size > 0 THEN 1 ELSE 0)

\* The check of the number of parts left out.
LoadPersistableStateError_NoCheck(length, size, num_parts) == AWS_ERROR_SUCCESS

\* s_load_persistable_state: the error raised (SUCCESS: none).
LoadPersistableStateError(length, size, num_parts) ==
    IF num_parts # ExpectedNumParts(length, size)
    THEN AWS_ERROR_INVALID_ARGUMENT
    ELSE AWS_ERROR_SUCCESS

\* ----------------------------------------------- the client's endpoints
\* Threads that call into the client at the same time.
NumThreads == 3
\* Endpoints the client allocates for the host in its lifetime.
MaxEndpoints == 2
\* References to its endpoint one thread holds at a time.
MaxRefsPerThread == 2

Threads == 1..NumThreads
\* Nobody holds the lock; no endpoint.
NO_THREAD == 0
NO_ENDPOINT == 0

\* aws_s3_client as far as its endpoints go: the synced_data lock, the
\* synced_data.endpoints table (one host: the endpoint in the table or
\* none), every endpoint's client_synced_data.ref_count, and for each thread
\* where it is in its call, the endpoint it refers to and how many of the
\* endpoint's references are its own. Observations: a ref-count was touched
\* without the lock, a reference was taken on a count of zero, and the
\* endpoints whose connection manager was told to shut down.
NewClient ==
    [lock |-> NO_THREAD,
     endpoints |-> NO_ENDPOINT,
     ref_count |-> [e \in 1..MaxEndpoints |-> 0],
     num_endpoints_allocated |-> 0,
     pc |-> [t \in Threads |-> "idle"],
     endpoint |-> [t \in Threads |-> NO_ENDPOINT],
     refs |-> [t \in Threads |-> 0],
     unsynced_access |-> FALSE,
     acquired_at_zero |-> FALSE,
     shut_down |-> {}]

\* A read or write of a ref-count by thread t.
TouchRefCount(c, t) == [c EXCEPT !.unsynced_access = @ \/ c.lock # t]

\* The endpoint left in the table whatever its count.
ReleaseTable_KeepsEntry(table, count) == table

\* aws_s3_endpoint_release, inside its critical section: the table after
\* the count went to count ("may remove the endpoint from the client's
\* hashtable").
ReleaseTable(table, count) == IF count = 0 THEN NO_ENDPOINT ELSE table

\* The constructor that marks list-parts as sent for every put.
ConstructedSentFlags_NeverLists(resumed) ==
    [t \in RequestTags |->
        IF t = TAG_LIST_PARTS THEN TRUE
        ELSE IF t = TAG_CREATE_MULTIPART_UPLOAD THEN resumed
        ELSE FALSE]

\* The *_sent flags (and the *_completed flags) the constructor leaves: a
\* put without a resume token has list-parts marked sent and completed, a
\* put with one has create-multipart-upload marked sent and completed.
ConstructedSentFlags(resumed) ==
    [t \in RequestTags |->
        IF t = TAG_LIST_PARTS THEN ~resumed
        ELSE IF t = TAG_CREATE_MULTIPART_UPLOAD THEN resumed
        ELSE FALSE]

\* ------------------------------------------------------------ Init
ServerPartStates == {"absent", "same", "changed", "nocksum"}
ChecksumAlgorithms == {"NONE", "CRC32C"}
\* Part sizes explored, in MiB.
PartSizes == {8}

Init ==
    /\ resume_token \in BOOLEAN
    /\ total_num_parts \in 1..MaxParts
    /\ part_size \in PartSizes
    /\ checksum_algorithm \in ChecksumAlgorithms
    /\ server_parts \in [1..total_num_parts -> ServerPartStates]
    /\ resume_token = FALSE => \A i \in 1..total_num_parts : server_parts[i] = "absent"
    /\ content_length = part_size * (total_num_parts - 1) + 1
    /\ options_resume_token =
         IF resume_token
         THEN JsonToken(JsonString(PUT_OBJECT_TYPE), JsonString(UPLOAD_ID),
                        JsonNumber(part_size, 0), JsonNumber(total_num_parts, 0))
         ELSE NoJsonToken
    /\ construction = CONSTRUCTED
    /\ client = NewClient
    /\ finish_result = [set |-> FALSE, error_code |-> AWS_ERROR_SUCCESS]
    /\ headers_callback \in BOOLEAN
    /\ upload_id = IF resume_token THEN UPLOAD_ID ELSE NULL
    /\ flags_sent = ConstructedSentFlags(resume_token)
    /\ flags_completed = flags_sent
    /\ error_codes =
         [create_multipart_upload_error_code |-> AWS_ERROR_SUCCESS,
          list_parts_error_code |-> AWS_ERROR_SUCCESS,
          complete_multipart_upload_error_code |-> AWS_ERROR_SUCCESS,
          abort_multipart_upload_error_code |-> AWS_ERROR_SUCCESS]
    /\ num_parts_sent = 0
    /\ num_parts_completed = 0
    /\ num_parts_successful = 0
    /\ num_parts_failed = 0
    /\ etag_list = [i \in 1..total_num_parts |-> NO_ETAG]
    /\ checksums_list = [i \in 1..total_num_parts |-> NO_CHECKSUM]
    /\ list_parts_continuation_token = NO_TOKEN
    /\ next_part_number = 1
    /\ num_parts_read_from_stream = 0
    /\ stream_position = 0
    /\ requests = {}
    /\ crash = NO_CRASH
    /\ emitted = [t \in RequestTags |-> 0]
    /\ parts_emitted = <<>>
    /\ finish_dispatched = FALSE
    /\ out_resume_token =
         [written |-> FALSE, token |-> NullToken, result |-> AWS_ERROR_SUCCESS,
          create_completed |-> FALSE]
    /\ pause_log = [with_token |-> FALSE, before_result |-> FALSE]
    /\ complete_succeeded = FALSE
    /\ bytes_transferred = 0

\* ------------------------------------------------------------ update
\* The body size that is the part size for every part.
ComputeRequestBodySize_NoRemainder(part_number) == part_size

\* s_compute_request_body_size
ComputeRequestBodySize(part_number) ==
    LET request_body_size == part_size
        content_remainder == content_length % part_size
    IN IF part_number = total_num_parts /\ content_remainder > 0
       THEN content_remainder
       ELSE request_body_size

\* The scan that stops at the first slot, populated or not.
SkipPopulated_NoSkip(n) == n

\* The scan of the part loop: skip the slots whose ETag is already there.
RECURSIVE SkipPopulated(_)
SkipPopulated(n) ==
    IF n <= total_num_parts /\ etag_list[n] # NO_ETAG
    THEN SkipPopulated(n + 1)
    ELSE n

\* The test on the finish error with RESUME_FAILED left out.
AbortSuppressedByError_OnlyPaused(fr) == fr.error_code = AWS_ERROR_S3_PAUSED

\* The test on the finish error with PAUSED left out.
AbortSuppressedByError_OnlyResumeFailed(fr) ==
    fr.error_code = AWS_ERROR_S3_RESUME_FAILED

\* "If the upload was paused or resume failed, we don't abort".
AbortSuppressedByError(fr) ==
    fr.error_code = AWS_ERROR_S3_PAUSED \/ fr.error_code = AWS_ERROR_S3_RESUME_FAILED

\* The finish branch without the test for a completed upload.
CompleteCompletedSuccessfully_NotTested == FALSE

\* "If the complete-multipart-upload completed successfully, then there is
\* nothing to abort".
CompleteCompletedSuccessfully ==
    /\ flags_completed[TAG_COMPLETE_MULTIPART_UPLOAD]
    /\ error_codes.complete_multipart_upload_error_code = AWS_ERROR_SUCCESS

\* The abort request created without AWS_S3_REQUEST_FLAG_ALWAYS_SEND.
AbortRequest_NotAlwaysSend == [NoRequest EXCEPT !.tag = TAG_ABORT_MULTIPART_UPLOAD]

\* The abort request update creates.
AbortRequest ==
    [NoRequest EXCEPT !.tag = TAG_ABORT_MULTIPART_UPLOAD, !.always_send = TRUE]

NoWorkRemaining == [NoRequest EXCEPT !.work_remaining = FALSE]

\* The abort sent without looking at upload_id.
UpdateSendAbort_NoNullCheck == AbortRequest

\* "If we made it here, and the abort-multipart-upload message hasn't been
\* sent yet, then do so now": nothing to abort without an upload id.
UpdateSendAbort == IF upload_id = NULL THEN NoWorkRemaining ELSE AbortRequest

\* The part loop without the test of the CONSERVATIVE flag.
UpdatePartLoop_IgnoresFlag(flags) ==
    LET n == SkipPopulated(next_part_number) IN
    IF n > total_num_parts
    THEN [NoRequest EXCEPT !.next = n, !.fatal = TRUE]
    ELSE [NoRequest EXCEPT !.tag = TAG_PART, !.part_number = n, !.next = n + 1]

\* The part loop of update (num_parts_sent < total_num_parts).
UpdatePartLoop(flags) ==
    LET n == SkipPopulated(next_part_number) IN
    IF n > total_num_parts
    THEN [NoRequest EXCEPT !.next = n, !.fatal = TRUE]
    ELSE IF flags = FLAG_CONSERVATIVE /\ num_parts_sent - num_parts_completed > 0
    THEN [NoRequest EXCEPT !.next = n]
    ELSE [NoRequest EXCEPT !.tag = TAG_PART, !.part_number = n, !.next = n + 1]

\* The complete-multipart-upload emitted without waiting for the parts.
WaitingForParts_NotWaiting == FALSE

\* "There is one more request to send after all of the parts (the
\* complete-multipart-upload) but it can't be done until all of the parts
\* have been completed."
WaitingForParts == num_parts_completed # total_num_parts

\* update while the meta request has no finish result.
UpdateNoFinishResult(flags) ==
    IF ~flags_sent[TAG_LIST_PARTS]
    THEN [NoRequest EXCEPT !.tag = TAG_LIST_PARTS]
    ELSE IF ~flags_completed[TAG_LIST_PARTS] THEN NoRequest
    ELSE IF ~flags_sent[TAG_CREATE_MULTIPART_UPLOAD]
    THEN [NoRequest EXCEPT !.tag = TAG_CREATE_MULTIPART_UPLOAD]
    ELSE IF ~flags_completed[TAG_CREATE_MULTIPART_UPLOAD] THEN NoRequest
    ELSE IF num_parts_sent < total_num_parts THEN UpdatePartLoop(flags)
    ELSE IF WaitingForParts THEN NoRequest
    ELSE IF ~flags_sent[TAG_COMPLETE_MULTIPART_UPLOAD]
    THEN [NoRequest EXCEPT !.tag = TAG_COMPLETE_MULTIPART_UPLOAD]
    ELSE IF ~flags_completed[TAG_COMPLETE_MULTIPART_UPLOAD] THEN NoRequest
    ELSE NoWorkRemaining

\* The finish branch waiting until every part of the upload has completed.
WaitingForSentParts_AllParts == num_parts_completed < total_num_parts

\* "If the number of parts completed is less than the number of parts sent,
\* then we need to wait until all of those parts are done sending before
\* aborting."
WaitingForSentParts == num_parts_completed < num_parts_sent

\* update once the meta request has a finish result.
UpdateHasFinishResult(flags) ==
    IF ~flags_sent[TAG_CREATE_MULTIPART_UPLOAD] THEN NoWorkRemaining
    ELSE IF ~flags_completed[TAG_CREATE_MULTIPART_UPLOAD] THEN NoRequest
    ELSE IF WaitingForSentParts THEN NoRequest
    ELSE IF /\ flags_sent[TAG_COMPLETE_MULTIPART_UPLOAD]
            /\ ~flags_completed[TAG_COMPLETE_MULTIPART_UPLOAD]
    THEN NoRequest
    ELSE IF AbortSuppressedByError(finish_result) THEN NoWorkRemaining
    ELSE IF CompleteCompletedSuccessfully THEN NoWorkRemaining
    ELSE IF ~flags_sent[TAG_ABORT_MULTIPART_UPLOAD]
    THEN UpdateSendAbort
    ELSE IF ~flags_completed[TAG_ABORT_MULTIPART_UPLOAD] THEN NoRequest
    ELSE NoWorkRemaining

\* update that goes on with the upload whatever the finish result.
UpdateDecision_IgnoresFinishResult(flags) == UpdateNoFinishResult(flags)

\* What update(flags) decides in the current state: whether work remains,
\* the request it creates (tag NONE: none) and the new next_part_number.
UpdateDecision(flags) ==
    IF ~HasFinishResult(finish_result)
    THEN UpdateNoFinishResult(flags)
    ELSE UpdateHasFinishResult(flags)

\* The success written over whatever finish result there is.
UpdateFinishResult_Overwrites(fr, work_remaining) ==
    IF work_remaining THEN fr ELSE [set |-> TRUE, error_code |-> AWS_ERROR_SUCCESS]

\* no_work_remaining: "if (!work_remaining) set_success_synced".
UpdateFinishResult(fr, work_remaining) ==
    IF work_remaining THEN fr ELSE SetSuccessSynced(fr)

\* complete_multipart_upload_sent left unset when the request is created.
SentFlagsAfter_CompleteNotMarked(d) ==
    IF d.tag \in RequestTags \ {TAG_PART, TAG_COMPLETE_MULTIPART_UPLOAD}
    THEN [flags_sent EXCEPT ![d.tag] = TRUE]
    ELSE flags_sent

\* The *_sent flags after update decided d: the flag of the request it
\* creates is set (a PART request is counted in num_parts_sent instead).
SentFlagsAfter(d) ==
    IF d.tag \in RequestTags \ {TAG_PART}
    THEN [flags_sent EXCEPT ![d.tag] = TRUE]
    ELSE flags_sent

\* s_s3_auto_ranged_put_update
Update(flags) ==
    LET d == UpdateDecision(flags) IN
    /\ crash = NO_CRASH
    /\ crash' = IF d.fatal THEN CRASH_UPDATE_ASSERT ELSE crash
    /\ next_part_number' = d.next
    /\ IF d.fatal
       THEN UNCHANGED <<flags_sent, num_parts_sent, requests, emitted, parts_emitted,
                        finish_result, finish_dispatched>>
       ELSE
        /\ flags_sent' = SentFlagsAfter(d)
        /\ num_parts_sent' = IF d.tag = TAG_PART THEN num_parts_sent + 1 ELSE num_parts_sent
        /\ requests' =
             IF d.tag = TAG_NONE THEN requests
             ELSE requests \cup {NewRequest(d.tag, d.part_number, d.always_send)}
        /\ emitted' =
             IF d.tag = TAG_NONE THEN emitted
             ELSE [emitted EXCEPT ![d.tag] = @ + 1]
        /\ parts_emitted' =
             IF d.tag = TAG_PART THEN Append(parts_emitted, d.part_number)
             ELSE parts_emitted
        /\ finish_result' = UpdateFinishResult(finish_result, d.work_remaining)
        /\ finish_dispatched' = (finish_dispatched \/ ~d.work_remaining)
    /\ UNCHANGED <<cfg_vars, headers_callback, upload_id, flags_completed, error_codes,
                   num_parts_completed, num_parts_successful, num_parts_failed,
                   etag_list, checksums_list, list_parts_continuation_token,
                   num_parts_read_from_stream, stream_position, out_resume_token,
                   pause_log, complete_succeeded, bytes_transferred>>


\* ------------------------------------------------------ the server
\* The parts the server holds for the upload being resumed.
UploadedParts == {i \in Parts : server_parts[i] # "absent"}

\* The checksum of the bytes the body stream holds for part i now.
StreamChecksum(i) == <<i, "now">>

\* The checksum the server reports for part i in ListParts.
ServerChecksum(i) ==
    IF server_parts[i] = "same" THEN <<i, "now">>
    ELSE IF server_parts[i] = "changed" THEN <<i, "then">>
    ELSE NO_CHECKSUM

\* The page a ListParts request with this part-number-marker gets.
PageOf(marker) ==
    {i \in UploadedParts :
        /\ i > marker
        /\ Cardinality({j \in UploadedParts : j > marker /\ j < i}) < MaxPartsPerPage}

HasMoreResults(marker) == {i \in UploadedParts : i > marker} # PageOf(marker)

PageToken(marker) ==
    IF HasMoreResults(marker)
    THEN CHOOSE i \in PageOf(marker) : \A j \in PageOf(marker) : j <= i
    ELSE NO_TOKEN

\* --------------------------------------------------- request_finished
\* s_process_part_info over one page: the ETag slots afterwards.
ProcessPartInfoEtags(page) ==
    [i \in Parts |-> IF i \in page THEN i ELSE etag_list[i]]

\* s_process_part_info over one page: the checksum buffers afterwards.
ProcessPartInfoChecksums(page) ==
    [i \in Parts |->
        IF i \in page /\ checksum_algorithm # "NONE"
        THEN ServerChecksum(i)
        ELSE checksums_list[i]]

\* The sweep over etag_list when pagination completes: the slots populated.
NumPopulated(etags) == Cardinality({i \in Parts : etags[i] # NO_ETAG})

\* The sweep with the increment of num_parts_sent left out.
SweepPartsSent_Forgotten(etags) == 0

\* The sweep that misses one populated slot.
SweepPartsSent_OneShort(etags) ==
    IF NumPopulated(etags) > 0 THEN NumPopulated(etags) - 1 ELSE 0

\* What the sweep adds to num_parts_sent.
SweepPartsSent(etags) == NumPopulated(etags)

\* The sweep with the increment of num_parts_completed left out.
SweepPartsCompleted_Forgotten(etags) == 0

\* What the sweep adds to num_parts_completed.
SweepPartsCompleted(etags) == NumPopulated(etags)

\* list_parts_completed left unset whatever the page said.
ListPartsCompletedAfter_Never(has_more_results) == FALSE

\* "list_parts_completed = !has_more_results", after a page or an error.
ListPartsCompletedAfter(has_more_results) == ~has_more_results

\* request_finished, tag LIST_PARTS, for a response whose page reports the
\* part numbers of page. fr is the finish result on entry, parsed whether
\* the response body parses.
FinishedListPartsPage(r, fr, error_code, parsed, page) ==
    LET ok == error_code = AWS_ERROR_SUCCESS /\ parsed
        has_more_results == ok /\ HasMoreResults(r.marker)
        code == IF error_code = AWS_ERROR_SUCCESS /\ ~parsed
                THEN AWS_ERROR_S3_LIST_PARTS_PARSE_FAILED
                ELSE error_code
        etags == IF ok THEN ProcessPartInfoEtags(page) ELSE etag_list
        sweep == ok /\ ~has_more_results
    IN
    /\ etag_list' = etags
    /\ checksums_list' = IF ok THEN ProcessPartInfoChecksums(page) ELSE checksums_list
    /\ list_parts_continuation_token' =
         IF ok THEN PageToken(r.marker)
         ELSE IF error_code = AWS_ERROR_SUCCESS THEN NO_TOKEN
         ELSE list_parts_continuation_token
    /\ num_parts_sent' =
         num_parts_sent + (IF sweep THEN SweepPartsSent(etags) ELSE 0)
    /\ num_parts_completed' =
         num_parts_completed + (IF sweep THEN SweepPartsCompleted(etags) ELSE 0)
    /\ flags_completed' =
         [flags_completed EXCEPT ![TAG_LIST_PARTS] = ListPartsCompletedAfter(has_more_results)]
    /\ error_codes' = [error_codes EXCEPT !.create_multipart_upload_error_code = code]
    /\ finish_result' =
         IF code # AWS_ERROR_SUCCESS THEN SetFailSynced(fr, code) ELSE fr
    /\ UNCHANGED <<headers_callback, upload_id, num_parts_successful, num_parts_failed,
                   complete_succeeded, bytes_transferred>>

\* request_finished, tag LIST_PARTS, for the page the server holds after
\* the request's part-number-marker.
FinishedListParts(r, fr, error_code, parsed) ==
    FinishedListPartsPage(r, fr, error_code, parsed, PageOf(r.marker))

\* An upload id stored whatever the response held.
UploadIdAfterCreate_AlwaysStored(code) == UPLOAD_ID

\* "Store the multipart upload id": only when the request succeeded and
\* the response body has a top-level UploadId.
UploadIdAfterCreate(code) ==
    IF code = AWS_ERROR_SUCCESS THEN UPLOAD_ID ELSE upload_id

\* request_finished, tag CREATE_MULTIPART_UPLOAD. has_upload_id: the
\* response body has a top-level UploadId.
FinishedCreateMultipartUpload(r, fr, error_code, has_upload_id) ==
    LET code == IF error_code = AWS_ERROR_SUCCESS /\ ~has_upload_id
                THEN AWS_ERROR_S3_MISSING_UPLOAD_ID
                ELSE error_code
    IN
    /\ upload_id' = UploadIdAfterCreate(code)
    /\ flags_completed' = [flags_completed EXCEPT ![TAG_CREATE_MULTIPART_UPLOAD] = TRUE]
    /\ error_codes' = [error_codes EXCEPT !.list_parts_error_code = code]
    /\ finish_result' =
         IF code # AWS_ERROR_SUCCESS THEN SetFailSynced(fr, code) ELSE fr
    /\ UNCHANGED <<headers_callback, num_parts_sent, num_parts_completed,
                   num_parts_successful, num_parts_failed, etag_list, checksums_list,
                   list_parts_continuation_token, complete_succeeded,
                   bytes_transferred>>

\* A finished part that is not counted as completed.
PartsCompletedAfterPart_NotCounted(n) == n

\* request_finished, tag PART: ++num_parts_completed, whatever the outcome.
PartsCompletedAfterPart(n) == n + 1

\* progress.bytes_transferred of the callback for a part that succeeded:
\* "bytes_transferred = meta_request->part_size", whatever the part.
ProgressBytesTransferred(r) == part_size

\* A response taken as a success whether or not it has an ETag header.
PartErrorCode_EtagNotRequired(error_code, has_etag) == error_code

\* "Find the ETag header if it exists and cache it": a successful response
\* without the header is an error (the code the handler uses for it is
\* MISSING_UPLOAD_ID).
PartErrorCode(error_code, has_etag) ==
    IF error_code = AWS_ERROR_SUCCESS /\ ~has_etag
    THEN AWS_ERROR_S3_MISSING_UPLOAD_ID
    ELSE error_code

\* request_finished, tag PART. has_etag: the response has an ETag header.
FinishedPart(r, fr, error_code, has_etag) ==
    LET code == PartErrorCode(error_code, has_etag) IN
    /\ num_parts_completed' = PartsCompletedAfterPart(num_parts_completed)
    /\ bytes_transferred' =
         IF code = AWS_ERROR_SUCCESS
         THEN bytes_transferred + ProgressBytesTransferred(r)
         ELSE bytes_transferred
    /\ IF code = AWS_ERROR_SUCCESS
       THEN /\ num_parts_successful' = num_parts_successful + 1
            /\ etag_list' = [etag_list EXCEPT ![r.part_number] = r.part_number]
            /\ UNCHANGED <<num_parts_failed>>
            /\ finish_result' = fr
       ELSE /\ num_parts_failed' = num_parts_failed + 1
            /\ finish_result' = SetFailSynced(fr, code)
            /\ UNCHANGED <<num_parts_successful, etag_list>>
    /\ UNCHANGED <<headers_callback, upload_id, flags_completed, error_codes,
                   num_parts_sent, checksums_list, list_parts_continuation_token,
                   complete_succeeded>>

\* request_finished, tag COMPLETE_MULTIPART_UPLOAD. callback_ok: the user's
\* headers callback, when it is called, returns success.
FinishedCompleteMultipartUpload(r, fr, error_code, callback_ok) ==
    LET called == error_code = AWS_ERROR_SUCCESS /\ headers_callback
        code == IF called /\ ~callback_ok THEN CALLBACK_ERROR ELSE error_code
    IN
    /\ headers_callback' = (headers_callback /\ ~called)
    /\ complete_succeeded' = (complete_succeeded \/ error_code = AWS_ERROR_SUCCESS)
    /\ UNCHANGED bytes_transferred
    /\ flags_completed' = [flags_completed EXCEPT ![TAG_COMPLETE_MULTIPART_UPLOAD] = TRUE]
    /\ error_codes' = [error_codes EXCEPT !.complete_multipart_upload_error_code = code]
    /\ finish_result' =
         IF code # AWS_ERROR_SUCCESS THEN SetFailSynced(fr, code) ELSE fr
    /\ UNCHANGED <<upload_id, num_parts_sent, num_parts_completed, num_parts_successful,
                   num_parts_failed, etag_list, checksums_list,
                   list_parts_continuation_token>>

\* request_finished, tag ABORT_MULTIPART_UPLOAD.
FinishedAbortMultipartUpload(r, fr, error_code) ==
    /\ flags_completed' = [flags_completed EXCEPT ![TAG_ABORT_MULTIPART_UPLOAD] = TRUE]
    /\ error_codes' = [error_codes EXCEPT !.abort_multipart_upload_error_code = error_code]
    /\ finish_result' = fr
    /\ UNCHANGED <<headers_callback, upload_id, num_parts_sent, num_parts_completed,
                   num_parts_successful, num_parts_failed, etag_list, checksums_list,
                   list_parts_continuation_token, complete_succeeded,
                   bytes_transferred>>

\* s_s3_auto_ranged_put_request_finished: the switch over the request's tag.
\* well_formed is the one property of the response the tag's case looks at.
FinishedRequest(r, fr, error_code, well_formed) ==
    /\ requests' = requests \ {r}
    /\ CASE r.tag = TAG_LIST_PARTS -> FinishedListParts(r, fr, error_code, well_formed)
         [] r.tag = TAG_CREATE_MULTIPART_UPLOAD ->
                FinishedCreateMultipartUpload(r, fr, error_code, well_formed)
         [] r.tag = TAG_PART -> FinishedPart(r, fr, error_code, well_formed)
         [] r.tag = TAG_COMPLETE_MULTIPART_UPLOAD ->
                FinishedCompleteMultipartUpload(r, fr, error_code, well_formed)
         [] r.tag = TAG_ABORT_MULTIPART_UPLOAD ->
                FinishedAbortMultipartUpload(r, fr, error_code)
    /\ UNCHANGED <<cfg_vars, flags_sent, next_part_number, num_parts_read_from_stream,
                   crash, emitted, parts_emitted, finish_dispatched, out_resume_token,
                   pause_log>>

\* The error codes the HTTP layer reports for a request it has sent.
SentOutcomes == {AWS_ERROR_SUCCESS, HTTP_ERROR}

\* A request that was sent finishes: the client calls request_finished.
RequestFinished(r, error_code, well_formed) ==
    /\ crash = NO_CRASH
    /\ r \in requests
    /\ r.prepared
    /\ (error_code # AWS_ERROR_SUCCESS \/ r.tag = TAG_ABORT_MULTIPART_UPLOAD) => well_formed
    /\ FinishedRequest(r, finish_result, error_code, well_formed)
    /\ UNCHANGED stream_position


\* --------------------------------------------------- prepare_request
\* What the reads and the checksum computations of one preparation do.
PrepareOutcomes == {"ok", "read_fail", "compute_fail"}

\* s_skip_parts_from_stream from part index part_index (0-based) up to
\* skip_until_part_number: the error it raises, or SUCCESS.
RECURSIVE SkipPartsFromStream(_, _, _)
SkipPartsFromStream(part_index, skip_until_part_number, outcome) ==
    IF part_index >= skip_until_part_number THEN AWS_ERROR_SUCCESS
    ELSE IF outcome = "read_fail" THEN STREAM_READ_ERROR
    ELSE IF /\ checksum_algorithm # "NONE"
            /\ Len(checksums_list[part_index + 1]) > 0
    THEN (IF outcome = "compute_fail" THEN AWS_ERROR_S3_RESUME_FAILED
          ELSE IF StreamChecksum(part_index + 1) # checksums_list[part_index + 1]
          THEN AWS_ERROR_S3_RESUMED_PART_CHECKSUM_MISMATCH
          ELSE SkipPartsFromStream(part_index + 1, skip_until_part_number, outcome))
    ELSE SkipPartsFromStream(part_index + 1, skip_until_part_number, outcome)

\* The complete request prepared without reading what is left of the stream.
CompleteSkipUntil_NothingLeft == num_parts_read_from_stream

\* "Corner case of last part being previously uploaded during resume. Read
\* it from input stream and potentially verify checksum": the part number
\* the preparation of the complete request skips up to.
CompleteSkipUntil == total_num_parts

\* The stream read at every preparation, retries included.
ReadsStream_EveryTime(r) == TRUE

\* "if (request->num_times_prepared == 0)": only the first preparation of a
\* request reads the body stream.
ReadsStream(r) == r.num_times_prepared = 0

\* The body stream's position after s_skip_parts_from_stream, from position
\* pos: every read that succeeds moves it by one part, whether the skip
\* ends in success or in a checksum error.
RECURSIVE StreamAfterSkip(_, _, _, _)
StreamAfterSkip(part_index, skip_until_part_number, outcome, pos) ==
    IF part_index >= skip_until_part_number THEN pos
    ELSE IF outcome = "read_fail" THEN pos
    ELSE IF /\ checksum_algorithm # "NONE"
            /\ Len(checksums_list[part_index + 1]) > 0
            /\ \/ outcome = "compute_fail"
               \/ StreamChecksum(part_index + 1) # checksums_list[part_index + 1]
    THEN pos + 1
    ELSE StreamAfterSkip(part_index + 1, skip_until_part_number, outcome, pos + 1)

\* The body stream's position after prepare_request, failed or not.
StreamAfterPrepare(r, outcome, error_code) ==
    IF r.tag = TAG_PART /\ ReadsStream(r)
    THEN StreamAfterSkip(num_parts_read_from_stream, r.part_number - 1, outcome,
                         stream_position)
         + (IF error_code = AWS_ERROR_SUCCESS THEN 1 ELSE 0)
    ELSE IF r.tag = TAG_COMPLETE_MULTIPART_UPLOAD /\ ReadsStream(r)
    THEN StreamAfterSkip(num_parts_read_from_stream, CompleteSkipUntil, outcome,
                         stream_position)
    ELSE stream_position

\* request->request_body after a successful prepare_request: the part of
\* the stream that aws_s3_meta_request_read_body read into it.
RequestBodyAfterPrepare(r, outcome) ==
    IF r.tag = TAG_PART /\ ReadsStream(r)
    THEN StreamAfterPrepare(r, outcome, AWS_ERROR_SUCCESS)
    ELSE r.request_body

\* s_s3_auto_ranged_put_prepare_request: the error it fails with, or SUCCESS.
PrepareRequestError(r, outcome) ==
    IF r.tag = TAG_PART /\ ReadsStream(r)
    THEN LET skipped == SkipPartsFromStream(num_parts_read_from_stream,
                                            r.part_number - 1, outcome)
         IN IF skipped # AWS_ERROR_SUCCESS THEN skipped
            ELSE IF outcome = "read_fail" THEN STREAM_READ_ERROR
            ELSE AWS_ERROR_SUCCESS
    ELSE IF r.tag = TAG_COMPLETE_MULTIPART_UPLOAD /\ ReadsStream(r)
    THEN SkipPartsFromStream(num_parts_read_from_stream, CompleteSkipUntil, outcome)
    ELSE AWS_ERROR_SUCCESS

\* prepare_data.num_parts_read_from_stream after a successful preparation.
PartsReadAfterPrepare(r) ==
    IF ~ReadsStream(r) THEN num_parts_read_from_stream
    ELSE IF r.tag = TAG_PART THEN r.part_number
    ELSE IF r.tag = TAG_COMPLETE_MULTIPART_UPLOAD THEN total_num_parts
    ELSE num_parts_read_from_stream

\* AWS_FATAL_ASSERT(auto_ranged_put->upload_id) of the COMPLETE and ABORT cases.
PrepareFatal(r) ==
    /\ r.tag \in {TAG_COMPLETE_MULTIPART_UPLOAD, TAG_ABORT_MULTIPART_UPLOAD}
    /\ upload_id = NULL

\* The meta-request base refuses to prepare a request of a meta request
\* that has a finish result, unless the request is flagged ALWAYS_SEND.
PrepareRefused(r) == ~r.always_send /\ HasFinishResult(finish_result)

\* Requests are prepared in the order update created them: a part is read
\* from the stream only after every earlier part that still awaits its
\* first preparation.
PrepareInOrder(r) ==
    \A q \in requests :
        (q.tag = TAG_PART /\ r.tag = TAG_PART /\ ~q.prepared
         /\ q.num_times_prepared = 0 /\ r.num_times_prepared = 0)
        => r.part_number <= q.part_number

\* The prepare task of the meta-request base around prepare_request: a
\* failed preparation marks the meta request failed and finishes the
\* request with the error.
PrepareRequest(r, outcome) ==
    /\ crash = NO_CRASH
    /\ r \in requests
    /\ ~r.prepared
    /\ PrepareInOrder(r)
    /\ IF PrepareRefused(r)
       THEN /\ FinishedRequest(r, SetFailSynced(finish_result, AWS_ERROR_S3_CANCELED),
                               AWS_ERROR_S3_CANCELED, TRUE)
            /\ UNCHANGED stream_position
       ELSE IF PrepareFatal(r)
       THEN /\ crash' = CRASH_PREPARE_ASSERT
            /\ UNCHANGED <<cfg_vars, finish_result, headers_callback, put_vars,
                           requests, obs_vars>>
       ELSE LET error_code == PrepareRequestError(r, outcome) IN
            IF error_code # AWS_ERROR_SUCCESS
            THEN /\ FinishedRequest(r, SetFailSynced(finish_result, error_code),
                                    error_code, TRUE)
                 /\ stream_position' = StreamAfterPrepare(r, outcome, error_code)
            ELSE /\ requests' =
                      (requests \ {r}) \cup
                      {[r EXCEPT !.prepared = TRUE,
                                 !.num_times_prepared = @ + 1,
                                 !.marker = IF r.tag = TAG_LIST_PARTS
                                            THEN list_parts_continuation_token
                                            ELSE r.marker,
                                 !.request_body_size =
                                     IF r.tag = TAG_PART
                                     THEN ComputeRequestBodySize(r.part_number)
                                     ELSE r.request_body_size,
                                 !.request_body = RequestBodyAfterPrepare(r, outcome)]}
                 /\ num_parts_read_from_stream' = PartsReadAfterPrepare(r)
                 /\ stream_position' = StreamAfterPrepare(r, outcome, error_code)
                 /\ UNCHANGED <<cfg_vars, finish_result, headers_callback, upload_id,
                                flags_sent, flags_completed, error_codes,
                                num_parts_sent, num_parts_completed,
                                num_parts_successful, num_parts_failed, etag_list,
                                checksums_list, list_parts_continuation_token,
                                next_part_number, crash, obs_vars>>

\* The retry strategy answers RETRY: the request is queued again and will
\* be prepared once more.
RetryRequest(r) ==
    /\ crash = NO_CRASH
    /\ r \in requests
    /\ r.prepared
    /\ r.num_times_prepared < MaxTimesPrepared
    /\ requests' = (requests \ {r}) \cup {[r EXCEPT !.prepared = FALSE]}
    /\ UNCHANGED <<cfg_vars, finish_result, headers_callback, put_vars, crash,
                   obs_vars>>

\* ---------------------------------------------------------- pause, cancel
\* The token s_s3_auto_ranged_put_pause serialises.
ResumeToken(id) ==
    [type |-> PUT_OBJECT_TYPE, multipart_upload_id |-> id,
     partition_size |-> part_size, total_num_parts |-> total_num_parts]

\* The pause call, given what reading upload_id yields (GARBAGE: a read
\* through the null pointer that did not trap).
PauseWith(id) ==
    LET generate == flags_completed[TAG_CREATE_MULTIPART_UPLOAD]
        token == IF generate THEN ResumeToken(id) ELSE NullToken
    IN
    /\ out_resume_token' =
         [written |-> TRUE, token |-> token, result |-> AWS_ERROR_SUCCESS,
          create_completed |-> generate]
    /\ pause_log' =
         [with_token |-> pause_log.with_token \/ generate,
          before_result |-> pause_log.before_result
                            \/ (generate /\ ~HasFinishResult(finish_result))]
    /\ finish_result' = SetFailSynced(finish_result, AWS_ERROR_S3_PAUSED)
    /\ UNCHANGED <<cfg_vars, headers_callback, put_vars, requests, crash, emitted,
                   parts_emitted, finish_dispatched, complete_succeeded,
                   bytes_transferred>>

\* s_s3_auto_ranged_put_pause. When the token is generated while upload_id
\* is null, the read of the null pointer either traps or yields garbage.
Pause ==
    /\ crash = NO_CRASH
    /\ IF flags_completed[TAG_CREATE_MULTIPART_UPLOAD] /\ upload_id = NULL
       THEN \/ /\ crash' = CRASH_PAUSE_NULL_UPLOAD_ID
               /\ UNCHANGED <<cfg_vars, finish_result, headers_callback, put_vars,
                              requests, obs_vars>>
            \/ PauseWith(GARBAGE)
       ELSE PauseWith(upload_id)

\* aws_s3_meta_request_cancel: marks the meta request failed with CANCELED.
Cancel ==
    /\ crash = NO_CRASH
    /\ finish_result' = SetFailSynced(finish_result, AWS_ERROR_S3_CANCELED)
    /\ UNCHANGED <<cfg_vars, headers_callback, put_vars, requests, crash, obs_vars>>

\* ------------------------------------------------- calls under the lock
\* What a handler does with the meta request's lock (synced_data) and to
\* the outside, in the order of its code.
EV_LOCK == "aws_s3_meta_request_lock_synced_data"
EV_UNLOCK == "aws_s3_meta_request_unlock_synced_data"
EV_REQUEST_NEW == "aws_s3_request_new"
EV_SET_SUCCESS == "aws_s3_meta_request_set_success_synced"
EV_SET_FAIL == "aws_s3_meta_request_set_fail_synced"
EV_FINISH == "aws_s3_meta_request_finish"
EV_PROGRESS_CALLBACK == "progress_callback"
EV_HEADERS_CALLBACK == "headers_callback"
EV_RETURN == "return"
\* The process dies here (a fatal assertion, a trapped null read).
EV_DIE == "abort"

\* The request created after the critical section.
UpdateEvents_RequestAfterUnlock(d) ==
    IF d.fatal THEN <<EV_LOCK, EV_DIE>>
    ELSE <<EV_LOCK>>
         \o (IF d.work_remaining THEN <<>> ELSE <<EV_SET_SUCCESS>>)
         \o <<EV_UNLOCK>>
         \o (IF d.tag = TAG_NONE THEN <<>> ELSE <<EV_REQUEST_NEW>>)
         \o (IF d.work_remaining THEN <<>> ELSE <<EV_FINISH>>)
         \o <<EV_RETURN>>

\* s_s3_auto_ranged_put_update, given its decision d: one critical section
\* around the whole decision, the finish after it.
UpdateEvents(d) ==
    IF d.fatal THEN <<EV_LOCK, EV_DIE>>
    ELSE <<EV_LOCK>>
         \o (IF d.tag = TAG_NONE THEN <<>> ELSE <<EV_REQUEST_NEW>>)
         \o (IF d.work_remaining THEN <<>> ELSE <<EV_SET_SUCCESS>>)
         \o <<EV_UNLOCK>>
         \o (IF d.work_remaining THEN <<>> ELSE <<EV_FINISH>>)
         \o <<EV_RETURN>>

\* s_s3_auto_ranged_put_prepare_request: LIST_PARTS reads the continuation
\* token in a critical section, COMPLETE builds its message in one (after
\* the skip, which returns early when it fails), the others take no lock.
PrepareRequestEvents(r, outcome) ==
    IF r.tag = TAG_LIST_PARTS THEN <<EV_LOCK, EV_UNLOCK, EV_RETURN>>
    ELSE IF r.tag = TAG_COMPLETE_MULTIPART_UPLOAD
    THEN (IF PrepareRequestError(r, outcome) # AWS_ERROR_SUCCESS THEN <<EV_RETURN>>
          ELSE IF upload_id = NULL THEN <<EV_LOCK, EV_DIE>>
          ELSE <<EV_LOCK, EV_UNLOCK, EV_RETURN>>)
    ELSE IF r.tag = TAG_ABORT_MULTIPART_UPLOAD /\ upload_id = NULL THEN <<EV_DIE>>
    ELSE <<EV_RETURN>>

\* The user's headers callback called inside the critical section that
\* copies the needed response headers.
HeadersCallbackEvents_UnderLock == <<EV_LOCK, EV_HEADERS_CALLBACK, EV_UNLOCK>>

\* request_finished, tag COMPLETE_MULTIPART_UPLOAD: the needed response
\* headers are copied in a critical section, then the user is notified.
HeadersCallbackEvents == <<EV_LOCK, EV_UNLOCK, EV_HEADERS_CALLBACK>>

\* The critical section that ends each case of request_finished; failed:
\* the error code is not SUCCESS by then.
FinishedCriticalSection(failed) ==
    <<EV_LOCK>> \o (IF failed THEN <<EV_SET_FAIL>> ELSE <<>>) \o <<EV_UNLOCK>>

\* s_s3_auto_ranged_put_request_finished (of a meta request that has a
\* progress callback).
FinishedRequestEvents(r, error_code, well_formed) ==
    LET failed ==
          IF r.tag = TAG_COMPLETE_MULTIPART_UPLOAD
          THEN error_code # AWS_ERROR_SUCCESS \/ (headers_callback /\ ~well_formed)
          ELSE error_code # AWS_ERROR_SUCCESS \/ ~well_formed
    IN
    (IF r.tag = TAG_PART
     THEN (IF failed THEN <<>> ELSE <<EV_PROGRESS_CALLBACK>>)
          \o FinishedCriticalSection(failed)
     ELSE IF r.tag = TAG_COMPLETE_MULTIPART_UPLOAD
     THEN (IF error_code = AWS_ERROR_SUCCESS /\ headers_callback
           THEN HeadersCallbackEvents ELSE <<>>)
          \o FinishedCriticalSection(failed)
     ELSE IF r.tag = TAG_ABORT_MULTIPART_UPLOAD
     THEN FinishedCriticalSection(FALSE)
     ELSE FinishedCriticalSection(failed))
    \o <<EV_RETURN>>

\* s_s3_auto_ranged_put_pause; trapped: the read of a null upload_id trapped.
PauseEvents(trapped) ==
    IF trapped THEN <<EV_LOCK, EV_DIE>>
    ELSE <<EV_LOCK, EV_SET_FAIL, EV_UNLOCK, EV_RETURN>>

\* ---------------------------------------------------------- specification
Next ==
    \/ \E flags \in UpdateFlags : Update(flags)
    \/ \E r \in requests, outcome \in PrepareOutcomes : PrepareRequest(r, outcome)
    \/ \E r \in requests, error_code \in SentOutcomes, well_formed \in BOOLEAN :
          RequestFinished(r, error_code, well_formed)
    \/ \E r \in requests : RetryRequest(r)
    \/ Pause
    \/ Cancel

Spec == Init /\ [][Next]_vars

\* ------------------------------------------------ the constructor's inputs
\* Largest content length explored, in MiB.
MaxContentLength == 17
\* The part sizes a caller passes, in MiB.
ConstructPartSizes == {g_s3_min_upload_part_size, 8}

\* The values explored for each field of a resume token: missing, of the
\* wrong JSON type, and numbers (with and without a fraction) on both sides
\* of each limit.
TokenTypes ==
    {JsonMissing, JsonNumber(1, 0), JsonString(PUT_OBJECT_TYPE),
     JsonString(GET_OBJECT_TYPE)}
TokenUploadIds == {JsonMissing, JsonNumber(1, 0), JsonString(UPLOAD_ID)}
TokenPartitionSizes ==
    {JsonMissing, JsonString("8")}
    \cup {JsonNumber(whole, tenths) :
            whole \in {g_s3_min_upload_part_size - 1} \cup ConstructPartSizes,
            tenths \in {0, 5}}
TokenNumParts ==
    {JsonMissing, JsonString("1")}
    \cup {JsonNumber(whole, tenths) :
            whole \in (0..ExpectedNumParts(MaxContentLength, g_s3_min_upload_part_size))
                      \cup {g_s3_max_num_upload_parts, g_s3_max_num_upload_parts + 1},
            tenths \in {0, 5}}
JsonTokens ==
    {JsonToken(type, id, partition_size, num_parts) :
        type \in TokenTypes, id \in TokenUploadIds,
        partition_size \in TokenPartitionSizes, num_parts \in TokenNumParts}

\* Before aws_s3_meta_request_auto_ranged_put_new: its arguments (part_size
\* and num_parts as the caller computed them for the body), no object yet.
InitConstruct ==
    /\ resume_token \in BOOLEAN
    /\ content_length \in 1..MaxContentLength
    /\ part_size \in ConstructPartSizes
    /\ total_num_parts = ExpectedNumParts(content_length, part_size)
    /\ options_resume_token \in (IF resume_token THEN JsonTokens ELSE {NoJsonToken})
    /\ construction = NOT_CONSTRUCTED
    /\ client = NewClient
    /\ checksum_algorithm = "NONE"
    /\ server_parts = [i \in 1..content_length |-> "absent"]
    /\ finish_result = [set |-> FALSE, error_code |-> AWS_ERROR_SUCCESS]
    /\ headers_callback = FALSE
    /\ upload_id = NULL
    /\ flags_sent = [t \in RequestTags |-> FALSE]
    /\ flags_completed = [t \in RequestTags |-> FALSE]
    /\ error_codes =
         [create_multipart_upload_error_code |-> AWS_ERROR_SUCCESS,
          list_parts_error_code |-> AWS_ERROR_SUCCESS,
          complete_multipart_upload_error_code |-> AWS_ERROR_SUCCESS,
          abort_multipart_upload_error_code |-> AWS_ERROR_SUCCESS]
    /\ num_parts_sent = 0
    /\ num_parts_completed = 0
    /\ num_parts_successful = 0
    /\ num_parts_failed = 0
    /\ etag_list = <<>>
    /\ checksums_list = <<>>
    /\ list_parts_continuation_token = NO_TOKEN
    /\ next_part_number = 0
    /\ num_parts_read_from_stream = 0
    /\ stream_position = 0
    /\ requests = {}
    /\ crash = NO_CRASH
    /\ emitted = [t \in RequestTags |-> 0]
    /\ parts_emitted = <<>>
    /\ finish_dispatched = FALSE
    /\ out_resume_token =
         [written |-> FALSE, token |-> NullToken, result |-> AWS_ERROR_SUCCESS,
          create_completed |-> FALSE]
    /\ pause_log = [with_token |-> FALSE, before_result |-> FALSE]
    /\ complete_succeeded = FALSE
    /\ bytes_transferred = 0

\* aws_s3_meta_request_auto_ranged_put_new
Construct ==
    LET parsed ==
          IF resume_token
          THEN ParseResumeInfoFromToken(options_resume_token)
          ELSE [error |-> AWS_ERROR_SUCCESS, upload_id |-> NULL,
                part_size |-> part_size, total_num_parts |-> total_num_parts]
        error ==
          IF parsed.error # AWS_ERROR_SUCCESS THEN parsed.error
          ELSE IF resume_token
          THEN LoadPersistableStateError(content_length, parsed.part_size,
                                         parsed.total_num_parts)
          ELSE AWS_ERROR_SUCCESS
    IN
    /\ construction = NOT_CONSTRUCTED
    /\ IF error # AWS_ERROR_SUCCESS
       THEN /\ construction' = error
            /\ UNCHANGED <<part_size, total_num_parts, put_vars>>
       ELSE /\ construction' = CONSTRUCTED
            /\ part_size' = parsed.part_size
            /\ total_num_parts' = parsed.total_num_parts
            /\ upload_id' = parsed.upload_id
            /\ flags_sent' = ConstructedSentFlags(resume_token)
            /\ flags_completed' = flags_sent'
            /\ num_parts_sent' = 0
            /\ num_parts_completed' = 0
            /\ etag_list' = [i \in 1..parsed.total_num_parts |-> NO_ETAG]
            /\ checksums_list' = [i \in 1..parsed.total_num_parts |-> NO_CHECKSUM]
            /\ next_part_number' = 1
            /\ num_parts_read_from_stream' = 0
            /\ UNCHANGED <<error_codes, num_parts_successful, num_parts_failed,
                           list_parts_continuation_token, stream_position>>
    /\ UNCHANGED <<resume_token, checksum_algorithm, server_parts, content_length,
                   options_resume_token, client, finish_result, headers_callback,
                   requests, crash, obs_vars>>

\* The upload of a constructed put that nothing disturbs: no failure, no
\* retry, no pause, no cancel.
UploadStep ==
    /\ construction = CONSTRUCTED
    /\ \/ Update(FLAG_NONE)
       \/ \E r \in requests : PrepareRequest(r, "ok")
       \/ \E r \in requests : RequestFinished(r, AWS_ERROR_SUCCESS, TRUE)

NextConstruct == Construct \/ UploadStep

\* Construction from every explored input, followed by the upload.
SpecConstruct == InitConstruct /\ [][NextConstruct]_vars


\* ================================================================ claims
\* Requests of a tag that update created and that have not finished yet.
InFlight(tag) == {r \in requests : r.tag = tag}

\* update, under some flag, would create an abort request now.
UpdateEmitsAbort ==
    \E flags \in UpdateFlags : UpdateDecision(flags).tag = TAG_ABORT_MULTIPART_UPLOAD

\* The recorded finish error is PAUSED or RESUME_FAILED.
FinishedPausedOrResumeFailed ==
    /\ finish_result.set
    /\ finish_result.error_code \in {AWS_ERROR_S3_PAUSED, AWS_ERROR_S3_RESUME_FAILED}

\* update, under some flag, would report no work remaining now.
UpdateReportsNoWork == \E flags \in UpdateFlags : ~UpdateDecision(flags).work_remaining

\* ---------------------------------------------------------------- C1
\* C1: in every reachable state of every put, fresh or resumed,
\* 0 <= num_parts_completed <= num_parts_sent <= total_num_parts.
C1_PartCountersOrdered ==
    /\ 0 <= num_parts_completed
    /\ num_parts_completed <= num_parts_sent
    /\ num_parts_sent <= total_num_parts

\* A resumed put whose sweep counted an uploaded part and which has a new
\* part in flight.
C1_Witness ==
    /\ resume_token
    /\ num_parts_completed >= 1
    /\ num_parts_sent > num_parts_completed
    /\ InFlight(TAG_PART) # {}

\* ---------------------------------------------------------------- C2
\* C2: in every reachable state of every put, fresh or resumed,
\* num_parts_successful + num_parts_failed = num_parts_completed.
C2_SuccessfulPlusFailedIsCompleted ==
    num_parts_successful + num_parts_failed = num_parts_completed

\* ---------------------------------------------------------------- C3
\* A ListParts page finished successfully and announced more results, and no
\* ListParts request is on its way.
MorePagesPending ==
    /\ resume_token
    /\ list_parts_continuation_token # NO_TOKEN
    /\ ~flags_completed[TAG_LIST_PARTS]
    /\ InFlight(TAG_LIST_PARTS) = {}

\* C3: on a resumed put, whenever a LIST_PARTS response finished successfully
\* with more results pending, the next update call creates another LIST_PARTS
\* request (so that pagination goes on until list_parts_completed).
C3_ListPartsContinues ==
    (MorePagesPending /\ ~finish_result.set /\ crash = NO_CRASH)
    => \A flags \in UpdateFlags : UpdateDecision(flags).tag = TAG_LIST_PARTS

\* ---------------------------------------------------------------- C4
\* The finish error is neither PAUSED nor RESUME_FAILED, there is an upload
\* id, and complete-multipart-upload has not completed successfully.
AbortDue ==
    /\ finish_result.set
    /\ ~FinishedPausedOrResumeFailed
    /\ upload_id # NULL
    /\ ~(/\ flags_completed[TAG_COMPLETE_MULTIPART_UPLOAD]
         /\ error_codes.complete_multipart_upload_error_code = AWS_ERROR_SUCCESS)

\* C4: update creates at most one ABORT_MULTIPART_UPLOAD request, always with
\* the ALWAYS_SEND flag; and where the finish error is neither PAUSED nor
\* RESUME_FAILED, upload_id is non-null and complete-multipart-upload has not
\* succeeded, update reports no work remaining (and has dispatched finish)
\* only when exactly one abort request was created and has completed.
C4_ExactlyOneAbortBeforeFinish ==
    /\ emitted[TAG_ABORT_MULTIPART_UPLOAD] <= 1
    /\ \A r \in InFlight(TAG_ABORT_MULTIPART_UPLOAD) : r.always_send
    /\ \A flags \in UpdateFlags :
          UpdateDecision(flags).tag = TAG_ABORT_MULTIPART_UPLOAD
          => UpdateDecision(flags).always_send
    /\ (AbortDue /\ (UpdateReportsNoWork \/ finish_dispatched))
       => /\ emitted[TAG_ABORT_MULTIPART_UPLOAD] = 1
          /\ flags_completed[TAG_ABORT_MULTIPART_UPLOAD]
          /\ InFlight(TAG_ABORT_MULTIPART_UPLOAD) = {}

\* A cancelled put with an upload id has finished after its one abort.
C4_Witness ==
    /\ AbortDue
    /\ finish_dispatched
    /\ finish_result.error_code = AWS_ERROR_S3_CANCELED
    /\ emitted[TAG_ABORT_MULTIPART_UPLOAD] = 1
    /\ flags_completed[TAG_ABORT_MULTIPART_UPLOAD]

\* ---------------------------------------------------------------- C5
\* C5: when the finish error is PAUSED or RESUME_FAILED, update creates no
\* ABORT_MULTIPART_UPLOAD request under either flag, and none was created.
C5_NoAbortWhenPausedOrResumeFailed ==
    FinishedPausedOrResumeFailed
    => /\ ~UpdateEmitsAbort
       /\ emitted[TAG_ABORT_MULTIPART_UPLOAD] = 0

\* A resumed put failed with RESUME_FAILED, has drained, holds an upload id
\* and has finished: the state in which any other failure would be aborted.
C5_Witness ==
    /\ finish_result.error_code = AWS_ERROR_S3_RESUME_FAILED
    /\ upload_id # NULL
    /\ num_parts_completed = num_parts_sent
    /\ finish_dispatched

C7_PauseToken ==
    /\ crash # CRASH_PAUSE_NULL_UPLOAD_ID
    /\ out_resume_token.written
       => /\ (out_resume_token.token # NullToken) = out_resume_token.create_completed
          /\ out_resume_token.token # NullToken
             => /\ upload_id # NULL
                /\ out_resume_token.token = ResumeToken(upload_id)
          /\ out_resume_token.result = AWS_ERROR_SUCCESS
          /\ finish_result.set

\* ---------------------------------------------------------------- C8
\* C8: when the meta request failed with RESUMED_PART_CHECKSUM_MISMATCH (the
\* checksum recomputed over a skipped part differed from the stored one), no
\* ABORT_MULTIPART_UPLOAD request is created, then or later.
C8_NoAbortOnChecksumMismatch ==
    finish_result.error_code = AWS_ERROR_S3_RESUMED_PART_CHECKSUM_MISMATCH
    => /\ ~UpdateEmitsAbort
       /\ emitted[TAG_ABORT_MULTIPART_UPLOAD] = 0

\* ---------------------------------------------------------------- C9
\* The CREATE_MULTIPART_UPLOAD request of a fresh put has finished with an
\* error. (The handler stores the request's error code in
\* list_parts_error_code.)
CreateFailed ==
    /\ ~resume_token
    /\ flags_completed[TAG_CREATE_MULTIPART_UPLOAD]
    /\ error_codes.list_parts_error_code # AWS_ERROR_SUCCESS

\* No PART, COMPLETE or ABORT request was created, and update creates none.
NoUploadRequests ==
    /\ emitted[TAG_PART] = 0
    /\ emitted[TAG_COMPLETE_MULTIPART_UPLOAD] = 0
    /\ emitted[TAG_ABORT_MULTIPART_UPLOAD] = 0
    /\ \A flags \in UpdateFlags :
          UpdateDecision(flags).tag \in {TAG_NONE}

\* C9 as stated: once the create request of a fresh put has finished with an
\* error, the finish error is that error, upload_id is null, and no PART,
\* COMPLETE or ABORT request is ever created.
C9_Original ==
    CreateFailed
    => /\ finish_result =
            [set |-> TRUE, error_code |-> error_codes.list_parts_error_code]
       /\ upload_id = NULL
       /\ NoUploadRequests

\* C9 amended: once the create request of a fresh put has finished with an
\* error, the finish error is that error, or CANCELED / PAUSED when cancel or
\* pause set the finish result before the request finished; upload_id is
\* null, and no PART, COMPLETE or ABORT request is ever created.
C9_CreateFailureFinishes ==
    CreateFailed
    => /\ finish_result.set
       /\ finish_result.error_code \in
            {error_codes.list_parts_error_code, AWS_ERROR_S3_CANCELED,
             AWS_ERROR_S3_PAUSED}
       /\ upload_id = NULL
       /\ NoUploadRequests

\* The create request failed at the HTTP layer and the put has finished
\* with that error.
C9_Witness ==
    /\ CreateFailed
    /\ finish_result.error_code = HTTP_ERROR
    /\ finish_dispatched

\* ---------------------------------------------------------------- C10
\* C10: once request_finished has seen the COMPLETE_MULTIPART_UPLOAD request
\* finish with SUCCESS, update creates no ABORT_MULTIPART_UPLOAD request,
\* whatever the headers callback returned.
C10_NoAbortAfterCompleteSucceeded ==
    complete_succeeded
    => /\ ~UpdateEmitsAbort
       /\ emitted[TAG_ABORT_MULTIPART_UPLOAD] = 0

\* ---------------------------------------------------------------- C11
\* The LIST_PARTS, CREATE_MULTIPART_UPLOAD, PART and COMPLETE_MULTIPART_UPLOAD
\* requests update created that have not finished yet.
UnfinishedUploadRequests ==
    {r \in requests : r.tag # TAG_ABORT_MULTIPART_UPLOAD}

\* C11: once a finish result is set, update creates the ABORT request or
\* reports no work remaining only in states where none of the LIST_PARTS,
\* CREATE, PART or COMPLETE requests it created earlier is still unfinished.
C11_DrainsBeforeAbortOrFinish ==
    (finish_result.set /\ crash = NO_CRASH
     /\ (UpdateEmitsAbort \/ UpdateReportsNoWork))
    => UnfinishedUploadRequests = {}

\* ---------------------------------------------------------------- C12
\* C12: the finish result is captured once: no step taken from a state
\* whose finish result is set (a set_fail of a request, of pause or of
\* cancel, the set_success of update) changes the recorded result.
C12_FinishResultSetOnce ==
    [][finish_result.set => finish_result' = finish_result]_vars

\* A put failed with an HTTP error; afterwards pause was called (and
\* returned a token), the abort was sent, and update reported no work
\* remaining on the abort branch: the HTTP error still stands.
C12_Witness ==
    /\ finish_result = [set |-> TRUE, error_code |-> HTTP_ERROR]
    /\ pause_log.with_token
    /\ ~pause_log.before_result
    /\ flags_completed[TAG_ABORT_MULTIPART_UPLOAD]
    /\ finish_dispatched

\* ---------------------------------------------------------------- C13
\* Every slot of etag_list holds an ETag.
AllEtagsPresent == \A i \in Parts : etag_list[i] # NO_ETAG

\* update, under some flag, would create the COMPLETE request now.
UpdateEmitsComplete ==
    \E flags \in UpdateFlags :
        UpdateDecision(flags).tag = TAG_COMPLETE_MULTIPART_UPLOAD

\* C13: on a fresh put every slot of etag_list is non-null when update
\* creates the COMPLETE_MULTIPART_UPLOAD request, from then on (so when the
\* body of the request is built), and when the put has finished with success.
C13_EtagListFullOnFreshSuccess ==
    ~resume_token
    => /\ UpdateEmitsComplete => AllEtagsPresent
       /\ emitted[TAG_COMPLETE_MULTIPART_UPLOAD] > 0 => AllEtagsPresent
       /\ (finish_dispatched /\ finish_result.error_code = AWS_ERROR_SUCCESS)
          => AllEtagsPresent

\* A fresh put of several parts has finished with success.
C13_Witness ==
    /\ ~resume_token
    /\ total_num_parts >= 2
    /\ complete_succeeded
    /\ finish_dispatched
    /\ finish_result.error_code = AWS_ERROR_SUCCESS

\* ---------------------------------------------------------------- C15
\* C15: a put constructed with the token of a paused put goes on to its
\* COMPLETE_MULTIPART_UPLOAD and finishes: as long as it has no finish
\* result, whenever none of its requests is outstanding, update creates the
\* next request or reports that no work remains.
C15_ResumedPutGoesOn ==
    (resume_token /\ ~finish_result.set /\ requests = {} /\ crash = NO_CRASH)
    => \E flags \in UpdateFlags :
          \/ UpdateDecision(flags).tag # TAG_NONE
          \/ ~UpdateDecision(flags).work_remaining

\* ---------------------------------------------------------------- C16
\* The message of the COMPLETE_MULTIPART_UPLOAD request has been built.
CompleteMessageBuilt ==
    \/ \E r \in InFlight(TAG_COMPLETE_MULTIPART_UPLOAD) : r.num_times_prepared > 0
    \/ complete_succeeded

\* C16: on a resumed put with a checksum algorithm, once the message of the
\* COMPLETE_MULTIPART_UPLOAD request has been built, the whole stream has
\* been read and every part with a stored (non-empty) checksum, the last
\* parts included, has the checksum of the bytes the stream holds for it.
C16_ResumedChecksumsVerified ==
    (resume_token /\ checksum_algorithm # "NONE" /\ CompleteMessageBuilt)
    => /\ num_parts_read_from_stream = total_num_parts
       /\ \A i \in Parts :
             Len(checksums_list[i]) > 0 => checksums_list[i] = StreamChecksum(i)

\* A resumed put with checksums whose last part had been uploaded before,
\* and which uploaded another part itself, has finished with success.
C16_Witness ==
    /\ resume_token
    /\ checksum_algorithm # "NONE"
    /\ Len(checksums_list[total_num_parts]) > 0
    /\ num_parts_successful >= 1
    /\ complete_succeeded
    /\ finish_dispatched
    /\ finish_result.error_code = AWS_ERROR_SUCCESS

\* ---------------------------------------------------------------- C17
\* num_parts_in_flight of update's part loop.
NumPartsInFlight == num_parts_sent - num_parts_completed

\* C17: under the CONSERVATIVE flag update creates a PART request only when
\* num_parts_sent - num_parts_completed = 0; with a part in flight, where it
\* would create a PART request without the flag, it returns work remaining
\* with no request (so num_parts_sent stays); and where update creates a
\* LIST_PARTS, CREATE, COMPLETE or ABORT request, or none, without the flag,
\* it decides the same with the flag.
C17_ConservativeLimitsParts ==
    LET c == UpdateDecision(FLAG_CONSERVATIVE)
        n == UpdateDecision(FLAG_NONE)
    IN /\ c.tag = TAG_PART => NumPartsInFlight = 0
       /\ (n.tag = TAG_PART /\ NumPartsInFlight > 0)
          => (c.tag = TAG_NONE /\ c.work_remaining)
       /\ n.tag # TAG_PART => c = n

\* A part is in flight and another is due: update creates it without the
\* flag and holds it back with the flag.
C17_Witness ==
    /\ NumPartsInFlight > 0
    /\ InFlight(TAG_PART) # {}
    /\ UpdateDecision(FLAG_NONE).tag = TAG_PART
    /\ UpdateDecision(FLAG_CONSERVATIVE).tag = TAG_NONE
    /\ UpdateDecision(FLAG_CONSERVATIVE).work_remaining

\* ---------------------------------------------------------------- C19
\* The number of times the lock is held after the first n calls of a handler.
LocksHeld(events, n) ==
    Cardinality({i \in 1..n : events[i] = EV_LOCK})
    - Cardinality({i \in 1..n : events[i] = EV_UNLOCK})

\* C19: every update call returns work remaining (with a request or with
\* none) or no work remaining; when it returns no work remaining it creates
\* no request, has recorded a finish result and dispatches finish, and it
\* dispatches finish in no other case; a request is created only while the
\* lock is held.
C19_UpdateReturn ==
    /\ \A flags \in UpdateFlags :
          LET d == UpdateDecision(flags)
              events == UpdateEvents(d)
          IN /\ d.work_remaining \in BOOLEAN
             /\ d.tag \in RequestTags \cup {TAG_NONE}
             /\ ~d.work_remaining => d.tag = TAG_NONE
             /\ ~d.fatal =>
                  /\ ~d.work_remaining
                     <=> \E i \in 1..Len(events) : events[i] = EV_FINISH
                  /\ ~d.work_remaining
                     => UpdateFinishResult(finish_result, d.work_remaining).set
             /\ \A i \in 1..Len(events) :
                   events[i] = EV_REQUEST_NEW => LocksHeld(events, i - 1) = 1
    /\ finish_dispatched => finish_result.set

\* update has returned no work remaining on a put that had requests to make.
C19_Witness ==
    /\ finish_dispatched
    /\ ~UpdateDecision(FLAG_NONE).work_remaining
    /\ emitted[TAG_PART] >= 1
    /\ requests = {}

\* ---------------------------------------------------------------- C20
\* The lock is free at every user callback, at the dispatch of finish and at
\* the return; it is taken only when free and released only when held.
LockDiscipline(events) ==
    \A i \in 1..Len(events) :
        /\ events[i] \in {EV_PROGRESS_CALLBACK, EV_HEADERS_CALLBACK, EV_FINISH,
                          EV_RETURN, EV_LOCK}
           => LocksHeld(events, i - 1) = 0
        /\ events[i] = EV_UNLOCK => LocksHeld(events, i - 1) = 1

\* C20: in every call of update, prepare_request, request_finished and pause
\* that can be made, the lock is not held while the progress callback or the
\* headers callback is invoked nor while finish is dispatched, and every path
\* that returns has released the lock it acquired.
C20_LockDiscipline ==
    /\ \A flags \in UpdateFlags : LockDiscipline(UpdateEvents(UpdateDecision(flags)))
    /\ \A r \in requests :
          IF r.prepared
          THEN \A error_code \in SentOutcomes, well_formed \in BOOLEAN :
                  LockDiscipline(FinishedRequestEvents(r, error_code, well_formed))
          ELSE \A outcome \in PrepareOutcomes :
                  LockDiscipline(PrepareRequestEvents(r, outcome))
    /\ \A trapped \in BOOLEAN : LockDiscipline(PauseEvents(trapped))

\* The COMPLETE_MULTIPART_UPLOAD request of a put with a headers callback
\* is about to finish: request_finished will copy the needed headers under
\* the lock and call the user.
C20_Witness ==
    /\ headers_callback
    /\ \E r \in InFlight(TAG_COMPLETE_MULTIPART_UPLOAD) :
          /\ r.prepared
          /\ \E i \in 1..Len(FinishedRequestEvents(r, AWS_ERROR_SUCCESS, TRUE)) :
                FinishedRequestEvents(r, AWS_ERROR_SUCCESS, TRUE)[i] = EV_HEADERS_CALLBACK
    /\ num_parts_successful >= 1

\* ---------------------------------------------------------------- C14
\* A field of the token is missing or of the wrong JSON type.
TokenMalformed(token) ==
    \/ token.type.kind # "string"
    \/ token.multipart_upload_id.kind # "string"
    \/ token.partition_size.kind # "number"
    \/ token.total_num_parts.kind # "number"

\* ceil(length / size) for the JSON number size = whole + tenths / 10.
ImpliedNumParts(length, size) ==
    LET d == 10 * size.whole + size.tenths IN
    ((10 * length) \div d) + (IF (10 * length) % d > 0 THEN 1 ELSE 0)

\* One of the conditions under which the construction must fail holds for
\* the token and the content length.
TokenMustBeRejected(token, length) ==
    \/ TokenMalformed(token)
    \/ token.type.str # PUT_OBJECT_TYPE
    \/ token.partition_size.whole < g_s3_min_upload_part_size
    \/ token.total_num_parts.whole > g_s3_max_num_upload_parts
    \/ (token.total_num_parts.whole = g_s3_max_num_upload_parts
        /\ token.total_num_parts.tenths > 0)
    \/ token.total_num_parts # JsonNumber(ImpliedNumParts(length, token.partition_size), 0)

\* C14: constructing a put with a resume token fails with INVALID_ARGUMENT
\* when a field is missing or of the wrong JSON type, the type is not the
\* put literal, partition_size is below the minimum part size,
\* total_num_parts is above the maximum, or ceil(content_length /
\* partition_size) differs from total_num_parts; otherwise it succeeds with
\* the token's part size and number of parts.
C14_TokenValidation ==
    (resume_token /\ construction # NOT_CONSTRUCTED)
    => IF TokenMustBeRejected(options_resume_token, content_length)
       THEN construction = AWS_ERROR_INVALID_ARGUMENT
       ELSE /\ construction = CONSTRUCTED
            /\ JsonNumber(part_size, 0) = options_resume_token.partition_size
            /\ JsonNumber(total_num_parts, 0) = options_resume_token.total_num_parts

\* The numbers of the token have no fraction.
TokenNumbersWhole(token) ==
    /\ token.partition_size.kind = "number" => token.partition_size.tenths = 0
    /\ token.total_num_parts.kind = "number" => token.total_num_parts.tenths = 0

\* The statement of C14 holds for the tokens whose numbers are whole.
TokenValidationOfWholeNumbers ==
    TokenNumbersWhole(options_resume_token) => C14_TokenValidation

\* ---------------------------------------------------------------- C18
\* The size the claim gives for part k.
PartSizeOf(k) ==
    IF k < total_num_parts THEN part_size
    ELSE IF content_length % part_size # 0 THEN content_length % part_size
    ELSE part_size

\* The sizes computed for parts 1..k, added up.
RECURSIVE SumOfBodySizes(_)
SumOfBodySizes(k) ==
    IF k = 0 THEN 0 ELSE ComputeRequestBodySize(k) + SumOfBodySizes(k - 1)

\* C18: for a put constructed with total_num_parts = ceil(content_length /
\* part_size), the body size computed for part k is part_size for every
\* k < total_num_parts and, for the last part, content_length mod part_size
\* when that is not zero and part_size otherwise; the sizes of all parts add
\* up to content_length; a prepared PART request carries that size.
C18_RequestBodySizes ==
    construction = CONSTRUCTED
    => /\ total_num_parts = ExpectedNumParts(content_length, part_size)
       /\ \A k \in Parts : ComputeRequestBodySize(k) = PartSizeOf(k)
       /\ SumOfBodySizes(total_num_parts) = content_length
       /\ \A r \in InFlight(TAG_PART) :
             r.num_times_prepared > 0
             => r.request_body_size = PartSizeOf(r.part_number)

\* A put of several parts whose content length is no multiple of the part
\* size has its last, short part prepared.
C18_Witness ==
    /\ construction = CONSTRUCTED
    /\ total_num_parts >= 3
    /\ content_length % part_size # 0
    /\ \E r \in InFlight(TAG_PART) :
          /\ r.part_number = total_num_parts
          /\ r.num_times_prepared > 0
          /\ r.request_body_size < part_size

\* ---------------------------------------------------------------- C21
\* The request a put starts with: LIST_PARTS with a resume token,
\* CREATE_MULTIPART_UPLOAD without one; and the one it never makes.
FirstRequestTag == IF resume_token THEN TAG_LIST_PARTS ELSE TAG_CREATE_MULTIPART_UPLOAD
NeverRequestTag == IF resume_token THEN TAG_CREATE_MULTIPART_UPLOAD ELSE TAG_LIST_PARTS

\* C21: a put constructed without a resume token never creates a LIST_PARTS
\* request and its upload starts with CREATE_MULTIPART_UPLOAD; a put
\* constructed with a resume token never creates a CREATE_MULTIPART_UPLOAD
\* request, its upload starts with LIST_PARTS, and its upload id is the one
\* of the token. (Starts with: the first update of a put without a finish
\* result creates that request, and every LIST_PARTS, CREATE, PART or
\* COMPLETE request comes after it.)
C21_FirstRequestByResumeToken ==
    /\ emitted[NeverRequestTag] = 0
    /\ \A flags \in UpdateFlags : UpdateDecision(flags).tag # NeverRequestTag
    /\ (emitted[FirstRequestTag] = 0 /\ ~finish_result.set /\ crash = NO_CRASH)
       => \A flags \in UpdateFlags : UpdateDecision(flags).tag = FirstRequestTag
    /\ \A t \in {TAG_PART, TAG_COMPLETE_MULTIPART_UPLOAD} :
          emitted[t] > 0 => emitted[FirstRequestTag] > 0
    /\ resume_token
       => /\ options_resume_token.multipart_upload_id.kind = "string"
          /\ upload_id = options_resume_token.multipart_upload_id.str

\* A resumed put has listed its parts and uploads a part of its own.
C21_Witness ==
    /\ resume_token
    /\ emitted[TAG_LIST_PARTS] = 1
    /\ flags_completed[TAG_LIST_PARTS]
    /\ InFlight(TAG_PART) # {}
    /\ emitted[TAG_CREATE_MULTIPART_UPLOAD] = 0

\* ------------------------------------------ the client's endpoints: calls
\* Everything but the client.
put_state ==
    <<resume_token, total_num_parts, part_size, checksum_algorithm, server_parts,
      content_length, options_resume_token, construction, finish_result,
      headers_callback, put_vars, requests, crash, obs_vars>>

\* aws_s3_client_lock_synced_data by a thread that starts the call op.
ClientLock(t, op) ==
    /\ client.pc[t] = "idle"
    /\ client.lock = NO_THREAD
    /\ client' = [client EXCEPT !.lock = t, !.pc[t] = op]

\* A thread without an endpoint asks the client for the host's endpoint.
GetEndpointLock(t) ==
    /\ client.refs[t] = 0
    /\ ClientLock(t, "get_endpoint")
    /\ UNCHANGED put_state

\* Inside the critical section: the endpoint in the table is acquired
\* (already_holding_lock = true), or a new one is allocated with one
\* reference and put in the table.
GetEndpoint(t) ==
    /\ client.pc[t] = "get_endpoint"
    /\ IF client.endpoints # NO_ENDPOINT
       THEN LET e == client.endpoints IN
            client' = [TouchRefCount(client, t) EXCEPT
                          !.ref_count[e] = @ + 1,
                          !.acquired_at_zero = @ \/ client.ref_count[e] = 0,
                          !.endpoint[t] = e,
                          !.refs[t] = 1,
                          !.pc[t] = "unlock"]
       ELSE IF client.num_endpoints_allocated < MaxEndpoints
       THEN LET e == client.num_endpoints_allocated + 1 IN
            client' = [TouchRefCount(client, t) EXCEPT
                          !.num_endpoints_allocated = e,
                          !.endpoints = e,
                          !.ref_count[e] = 1,
                          !.endpoint[t] = e,
                          !.refs[t] = 1,
                          !.pc[t] = "unlock"]
       ELSE client' = [client EXCEPT !.pc[t] = "unlock"]
    /\ UNCHANGED put_state

\* aws_s3_endpoint_acquire(endpoint, already_holding_lock = false) by a
\* thread that holds a reference: it takes the lock ...
AcquireLock(t) ==
    /\ client.refs[t] > 0
    /\ client.refs[t] < MaxRefsPerThread
    /\ ClientLock(t, "acquire")
    /\ UNCHANGED put_state

\* ... and increments the count.
Acquire(t) ==
    /\ client.pc[t] = "acquire"
    /\ LET e == client.endpoint[t] IN
       client' = [TouchRefCount(client, t) EXCEPT
                     !.ref_count[e] = @ + 1,
                     !.acquired_at_zero = @ \/ client.ref_count[e] = 0,
                     !.refs[t] = @ + 1,
                     !.pc[t] = "unlock"]
    /\ UNCHANGED put_state

\* aws_s3_endpoint_release by a thread that holds a reference (and not the
\* lock): it takes the lock ...
ReleaseLock(t) ==
    /\ client.refs[t] > 0
    /\ ClientLock(t, "release")
    /\ UNCHANGED put_state

\* ... decrements the count and, at zero, removes the endpoint from the
\* table.
Release(t) ==
    /\ client.pc[t] = "release"
    /\ LET e == client.endpoint[t]
           count == client.ref_count[e] - 1
       IN
       client' = [TouchRefCount(client, t) EXCEPT
                     !.ref_count[e] = count,
                     !.endpoints = IF client.endpoints = e
                                   THEN ReleaseTable(client.endpoints, count)
                                   ELSE client.endpoints,
                     !.refs[t] = @ - 1,
                     !.pc[t] = IF count = 0 THEN "unlock_shutdown" ELSE "unlock"]
    /\ UNCHANGED put_state

\* aws_s3_client_unlock_synced_data at the end of a critical section.
ClientUnlock(t) ==
    /\ client.pc[t] \in {"unlock", "unlock_shutdown"}
    /\ client' = [client EXCEPT
                     !.lock = NO_THREAD,
                     !.endpoint[t] = IF client.refs[t] = 0 /\ client.pc[t] = "unlock"
                                     THEN NO_ENDPOINT ELSE @,
                     !.pc[t] = IF client.pc[t] = "unlock" THEN "idle" ELSE "shutdown"]
    /\ UNCHANGED put_state

\* After the last release, outside the lock: the endpoint's connection
\* manager is told to shut down (the endpoint is destroyed when it has).
EndpointShutdown(t) ==
    /\ client.pc[t] = "shutdown"
    /\ client' = [client EXCEPT
                     !.shut_down = @ \cup {client.endpoint[t]},
                     !.endpoint[t] = NO_ENDPOINT,
                     !.pc[t] = "idle"]
    /\ UNCHANGED put_state

\* A put that stays as constructed while threads use the client's endpoint.
InitEndpoint ==
    /\ Init
    /\ ~resume_token
    /\ total_num_parts = 1
    /\ checksum_algorithm = "NONE"
    /\ ~headers_callback

NextEndpoint ==
    \E t \in Threads :
        \/ GetEndpointLock(t)
        \/ GetEndpoint(t)
        \/ AcquireLock(t)
        \/ Acquire(t)
        \/ ReleaseLock(t)
        \/ Release(t)
        \/ ClientUnlock(t)
        \/ EndpointShutdown(t)

\* Concurrent lookups, acquires and releases of the client's endpoint.
SpecEndpoint == InitEndpoint /\ [][NextEndpoint]_vars

\* ---------------------------------------------------------------- C22
\* The references to endpoint e held by the threads of S.
RECURSIVE RefsHeld(_, _)
RefsHeld(S, e) ==
    IF S = {} THEN 0
    ELSE LET t == CHOOSE x \in S : TRUE IN
         (IF client.endpoint[t] = e THEN client.refs[t] ELSE 0)
         + RefsHeld(S \ {t}, e)

\* C22: under every interleaving of concurrent lookups, acquires and
\* releases, a ref-count is read or written only by the thread that holds
\* the client's lock; an endpoint whose count is zero is not in the
\* endpoint table (nor is one that was shut down), so that no reference is
\* ever taken on a count of zero; every count is the number of references
\* held, and no thread holds a reference to an endpoint that was shut down.
C22_EndpointRefCount ==
    /\ ~client.unsynced_access
    /\ ~client.acquired_at_zero
    /\ client.endpoints # NO_ENDPOINT
       => /\ client.ref_count[client.endpoints] > 0
          /\ client.endpoints \notin client.shut_down
    /\ \A e \in 1..MaxEndpoints : client.ref_count[e] = RefsHeld(Threads, e)
    /\ \A t \in Threads :
          client.refs[t] > 0 => client.endpoint[t] \notin client.shut_down

\* An endpoint went to zero, left the table and was shut down; the next
\* lookup allocated a new endpoint, which two threads hold now while one of
\* them is releasing it.
C22_Witness ==
    /\ client.shut_down # {}
    /\ client.endpoints # NO_ENDPOINT
    /\ client.ref_count[client.endpoints] >= 2
    /\ \A t \in Threads : client.refs[t] > 0
    /\ \E t \in Threads : client.pc[t] = "release"

\* ---------------------------------------------------------------- C23
\* update, under some flag, would create a PART request now.
UpdateEmitsPart == \E flags \in UpdateFlags : UpdateDecision(flags).tag = TAG_PART

\* What a PART request waits for: list-parts has completed and, on a fresh
\* put, create-multipart-upload has completed without error and left the
\* upload id. (The handler of the create request records its error code in
\* list_parts_error_code.)
ReadyForParts ==
    /\ flags_completed[TAG_LIST_PARTS]
    /\ flags_completed[TAG_CREATE_MULTIPART_UPLOAD]
    /\ ~resume_token
       => /\ emitted[TAG_CREATE_MULTIPART_UPLOAD] = 1
          /\ InFlight(TAG_CREATE_MULTIPART_UPLOAD) = {}
          /\ error_codes.list_parts_error_code = AWS_ERROR_SUCCESS
          /\ upload_id # NULL
    /\ resume_token
       => /\ emitted[TAG_LIST_PARTS] = 1
          /\ InFlight(TAG_LIST_PARTS) = {}

\* C23: update creates a PART request only after list-parts has completed
\* (resumed put) and create-multipart-upload has completed without error
\* (fresh put), and no PART request exists before; it creates the
\* COMPLETE_MULTIPART_UPLOAD request only when num_parts_completed =
\* total_num_parts and no finish result is set; it creates at most one
\* CREATE_MULTIPART_UPLOAD and at most one COMPLETE_MULTIPART_UPLOAD request.
C23_ProtocolOrdering ==
    /\ (UpdateEmitsPart \/ emitted[TAG_PART] > 0) => ReadyForParts
    /\ UpdateEmitsPart => ~finish_result.set
    /\ UpdateEmitsComplete
       => /\ num_parts_completed = total_num_parts
          /\ ~finish_result.set
    /\ emitted[TAG_COMPLETE_MULTIPART_UPLOAD] > 0
       => /\ num_parts_completed = total_num_parts
          /\ InFlight(TAG_PART) = {}
    /\ emitted[TAG_CREATE_MULTIPART_UPLOAD] <= 1
    /\ emitted[TAG_COMPLETE_MULTIPART_UPLOAD] <= 1
    /\ (emitted[TAG_CREATE_MULTIPART_UPLOAD] = 1 /\ crash = NO_CRASH)
       => \A flags \in UpdateFlags :
             UpdateDecision(flags).tag # TAG_CREATE_MULTIPART_UPLOAD
    /\ (emitted[TAG_COMPLETE_MULTIPART_UPLOAD] = 1 /\ crash = NO_CRASH)
       => ~UpdateEmitsComplete

\* A fresh put of several parts went through create, all its parts and the
\* complete request, which is in flight.
C23_Witness ==
    /\ ~resume_token
    /\ total_num_parts >= 2
    /\ emitted[TAG_CREATE_MULTIPART_UPLOAD] = 1
    /\ emitted[TAG_PART] = total_num_parts
    /\ emitted[TAG_COMPLETE_MULTIPART_UPLOAD] = 1
    /\ InFlight(TAG_COMPLETE_MULTIPART_UPLOAD) # {}

\* ---------------------------------------------------------------- C24
\* The part numbers of the PART requests update has created.
PartsEmitted == {parts_emitted[i] : i \in 1..Len(parts_emitted)}

\* C24: the part numbers of the PART requests of one put are strictly
\* increasing, each lies in 1..total_num_parts, none is a part the server
\* listed (whose ETag slot ListParts populated), nor is the part update
\* would create next; and once the COMPLETE request has been created, every
\* part that was not listed has been requested exactly once.
C24_PartNumbers ==
    /\ \A i \in 1..Len(parts_emitted) :
          /\ parts_emitted[i] \in 1..total_num_parts
          /\ parts_emitted[i] \notin UploadedParts
          /\ i > 1 => parts_emitted[i - 1] < parts_emitted[i]
    /\ Len(parts_emitted) = emitted[TAG_PART]
    /\ \A flags \in UpdateFlags :
          LET d == UpdateDecision(flags) IN
          d.tag = TAG_PART
          => /\ d.part_number \in 1..total_num_parts
             /\ etag_list[d.part_number] = NO_ETAG
             /\ d.part_number \notin UploadedParts
             /\ \A n \in PartsEmitted : n < d.part_number
    /\ emitted[TAG_COMPLETE_MULTIPART_UPLOAD] > 0
       => /\ PartsEmitted = Parts \ UploadedParts
          /\ Len(parts_emitted) = Cardinality(Parts \ UploadedParts)

\* A resumed put whose first part the server listed has requested the
\* second part only and gone on to the COMPLETE request.
C24_Witness ==
    /\ resume_token
    /\ total_num_parts >= 2
    /\ UploadedParts = {1}
    /\ parts_emitted = <<2>>
    /\ emitted[TAG_COMPLETE_MULTIPART_UPLOAD] = 1

\* ---------------------------------------------------------------- C25
\* update is in its part loop: no finish result, list-parts and
\* create-multipart-upload completed, parts left to send.
InPartLoop ==
    /\ crash = NO_CRASH
    /\ ~finish_result.set
    /\ flags_completed[TAG_LIST_PARTS]
    /\ flags_completed[TAG_CREATE_MULTIPART_UPLOAD]
    /\ num_parts_sent < total_num_parts

\* C25: the fatal assertion of the part loop never fires: whenever update
\* finds num_parts_sent < total_num_parts with no finish result, an empty
\* ETag slot is left at or after next_part_number, so that after the skip
\* of the populated slots next_part_number <= total_num_parts; for fresh and
\* resumed puts and every order of part completions.
C25_PartLoopAssertionHolds ==
    /\ crash # CRASH_UPDATE_ASSERT
    /\ \A flags \in UpdateFlags : ~UpdateDecision(flags).fatal
    /\ InPartLoop
       => /\ next_part_number \in 1..total_num_parts
          /\ \E i \in next_part_number..total_num_parts : etag_list[i] = NO_ETAG
          /\ \A flags \in UpdateFlags :
                UpdateDecision(flags).next \in 1..(total_num_parts + 1)

\* A resumed put in its part loop with a listed part to skip: update skips
\* it and creates the request of the next part.
C25_Witness ==
    /\ resume_token
    /\ InPartLoop
    /\ etag_list[next_part_number] # NO_ETAG
    /\ UpdateDecision(FLAG_NONE).tag = TAG_PART
    /\ UpdateDecision(FLAG_NONE).part_number > next_part_number

\* ---------------------------------------------------------------- C26
\* The requests created in this step.
NewRequests == {r \in requests' : r.num_times_prepared = 0 /\ ~r.prepared} \ requests

\* C26: in no step taken from a state with a finish result is a LIST_PARTS,
\* CREATE_MULTIPART_UPLOAD, PART or COMPLETE_MULTIPART_UPLOAD request
\* created; the only request created is ABORT_MULTIPART_UPLOAD; and
\* num_parts_sent grows in no such step, except by the sweep of a LIST_PARTS
\* request that was in flight and finishes.
C26_NoUploadRequestAfterFinishResult ==
    [][finish_result.set
       => /\ \A t \in RequestTags \ {TAG_ABORT_MULTIPART_UPLOAD} :
                emitted'[t] = emitted[t]
          /\ parts_emitted' = parts_emitted
          /\ \A r \in NewRequests : r.tag = TAG_ABORT_MULTIPART_UPLOAD
          /\ num_parts_sent' # num_parts_sent
             => /\ InFlight(TAG_LIST_PARTS) # {}
                /\ \A r \in requests' : r.tag # TAG_LIST_PARTS
                /\ emitted' = emitted]_vars

\* A put failed in mid-upload: parts were left to send, none was sent after
\* the failure, and update created the abort request.
C26_Witness ==
    /\ finish_result.set
    /\ emitted[TAG_PART] >= 1
    /\ num_parts_sent < total_num_parts
    /\ emitted[TAG_COMPLETE_MULTIPART_UPLOAD] = 0
    /\ emitted[TAG_ABORT_MULTIPART_UPLOAD] = 1

\* ---------------------------------------------------------------- C27
\* ListParts pagination has completed: the last page was received and
\* parsed. (The handler of the LIST_PARTS request records its error code in
\* create_multipart_upload_error_code.)
PaginationCompleted ==
    /\ resume_token
    /\ emitted[TAG_LIST_PARTS] = 1
    /\ InFlight(TAG_LIST_PARTS) = {}
    /\ flags_completed[TAG_LIST_PARTS]
    /\ error_codes.create_multipart_upload_error_code = AWS_ERROR_SUCCESS

\* What the sweep has added to each counter so far: the number of distinct
\* parts the server reported, once pagination has completed.
PartsSwept == IF PaginationCompleted THEN Cardinality(UploadedParts) ELSE 0

\* C27: on a resumed put num_parts_sent and num_parts_completed are zero
\* until ListParts pagination completes; when it completes the ETag slots
\* populated are those of the parts the server reported and both counters
\* equal their number; the sweep adds to the counters once: from then on
\* num_parts_sent is that number plus the PART requests created, and
\* num_parts_completed that number plus the PART requests finished.
C27_SweepCountsListedParts ==
    resume_token
    => /\ ~PaginationCompleted => (num_parts_sent = 0 /\ num_parts_completed = 0)
       /\ PaginationCompleted
          => \A i \in UploadedParts : etag_list[i] # NO_ETAG
       /\ (PaginationCompleted /\ emitted[TAG_PART] = 0)
          => /\ num_parts_sent = NumPopulated(etag_list)
             /\ num_parts_completed = NumPopulated(etag_list)
       /\ num_parts_sent = PartsSwept + emitted[TAG_PART]
       /\ num_parts_completed =
            PartsSwept + emitted[TAG_PART] - Cardinality(InFlight(TAG_PART))

\* A resumed put listed a part the server held, was swept, and uploaded the
\* rest: both counters have reached total_num_parts.
C27_Witness ==
    /\ PaginationCompleted
    /\ PartsSwept >= 1
    /\ emitted[TAG_PART] >= 1
    /\ num_parts_sent = total_num_parts
    /\ num_parts_completed = total_num_parts

\* ------------------------------------------------- the fresh put, scheduled
\* A fresh put: no resume token is passed to the constructor.
InitFresh == InitConstruct /\ ~resume_token

\* The client calls update on a constructed put, with either flag.
UpdateCalled ==
    construction = CONSTRUCTED /\ \E flags \in UpdateFlags : Update(flags)

\* The client prepares a queued request, and the preparation succeeds.
RequestPrepared ==
    construction = CONSTRUCTED /\ \E r \in requests : PrepareRequest(r, "ok")

\* A sent request finishes with SUCCESS and a well-formed response.
RequestSucceeded ==
    /\ construction = CONSTRUCTED
    /\ \E r \in requests : RequestFinished(r, AWS_ERROR_SUCCESS, TRUE)

NextFresh ==
    \/ Construct
    \/ UpdateCalled
    \/ RequestPrepared
    \/ RequestSucceeded

\* The fresh put under a client that keeps calling update, prepares every
\* queued request and whose every request finishes successfully.
SpecFresh ==
    /\ InitFresh
    /\ [][NextFresh]_vars
    /\ WF_vars(UpdateCalled)
    /\ WF_vars(RequestPrepared)
    /\ WF_vars(RequestSucceeded)

\* update has returned no work remaining after exactly one CREATE, one PART
\* per part, one COMPLETE and nothing else, with a success finish result.
FreshPutDone ==
    /\ finish_dispatched
    /\ \A flags \in UpdateFlags : ~UpdateDecision(flags).work_remaining
    /\ finish_result = [set |-> TRUE, error_code |-> AWS_ERROR_SUCCESS]
    /\ requests = {}
    /\ emitted = [t \in RequestTags |->
                    IF t = TAG_PART THEN total_num_parts
                    ELSE IF t \in {TAG_CREATE_MULTIPART_UPLOAD,
                                   TAG_COMPLETE_MULTIPART_UPLOAD} THEN 1
                    ELSE 0]

\* The requests update has created so far are a prefix of the phases:
\* CREATE, then the PART requests, then COMPLETE.
InPhaseOrder ==
    /\ emitted[TAG_PART] > 0 => emitted[TAG_CREATE_MULTIPART_UPLOAD] = 1
    /\ emitted[TAG_COMPLETE_MULTIPART_UPLOAD] > 0
       => emitted[TAG_PART] = total_num_parts
    /\ emitted[TAG_CREATE_MULTIPART_UPLOAD] <= 1
    /\ emitted[TAG_PART] <= total_num_parts
    /\ emitted[TAG_COMPLETE_MULTIPART_UPLOAD] <= 1
    /\ emitted[TAG_ABORT_MULTIPART_UPLOAD] = 0
    /\ emitted[TAG_LIST_PARTS] = 0

\* C28: a constructed fresh put whose update keeps being called and whose
\* every request finishes successfully, with no cancel and no pause,
\* eventually reports no work remaining with a success finish result,
\* having created exactly one CREATE_MULTIPART_UPLOAD, total_num_parts PART
\* requests, one COMPLETE_MULTIPART_UPLOAD and no ABORT_MULTIPART_UPLOAD,
\* a PART only after the CREATE and the COMPLETE only after every PART.
C28_FreshPutLiveness ==
    /\ (construction = CONSTRUCTED) ~> FreshPutDone
    /\ [](construction = CONSTRUCTED => InPhaseOrder)
    /\ [][emitted'[TAG_PART] > emitted[TAG_PART]
          => emitted[TAG_COMPLETE_MULTIPART_UPLOAD] = 0]_vars

\* A fresh put of several parts is done.
C28_Witness == ~resume_token /\ total_num_parts >= 3 /\ FreshPutDone

\* ------------------------------------------ the put, scheduled to the end
\* The client keeps calling update, with either flag.
UpdateKeepsBeingCalled == \E flags \in UpdateFlags : Update(flags)

\* Every queued request is eventually prepared, whatever the preparation does.
RequestsArePrepared ==
    \E r \in requests, outcome \in PrepareOutcomes : PrepareRequest(r, outcome)

\* Every sent request eventually finishes, with any outcome.
RequestsFinish ==
    \E r \in requests, error_code \in SentOutcomes, well_formed \in BOOLEAN :
        RequestFinished(r, error_code, well_formed)

\* The puts whose steps have every outcome: with a checksum algorithm (the
\* skip over uploaded parts can find a mismatch) and a headers callback (it
\* can fail after the COMPLETE succeeded).
InitScheduled == Init /\ checksum_algorithm = "CRC32C" /\ headers_callback

\* Every such put, fresh or resumed, disturbed by failures, retries, pause
\* and cancel, under a client that keeps calling update and lets no request
\* wait forever.
SpecScheduled ==
    /\ InitScheduled
    /\ [][Next]_vars
    /\ WF_vars(UpdateKeepsBeingCalled)
    /\ WF_vars(RequestsArePrepared)
    /\ WF_vars(RequestsFinish)

\* The process died in a pause call that read the null upload_id: nobody
\* calls update any more.
DiedInPause == crash = CRASH_PAUSE_NULL_UPLOAD_ID

\* C29: once a finish result is set, if update keeps being called and every
\* in-flight request eventually finishes, with any outcome, update
\* eventually returns no work remaining and dispatches finish (unless a
\* pause call kills the process, after which update is not called): it
\* never waits for ever on a flag that no pending request can set.
C29_TerminatesAfterFinishResult ==
    HasFinishResult(finish_result) ~> (finish_dispatched \/ DiedInPause)

\* A part failed while another part was in flight and the put was finished
\* after the abort request completed.
C29_Witness ==
    /\ finish_dispatched
    /\ finish_result.set
    /\ finish_result.error_code # AWS_ERROR_SUCCESS
    /\ num_parts_failed >= 1
    /\ num_parts_completed = num_parts_sent
    /\ num_parts_sent < total_num_parts
    /\ flags_completed[TAG_ABORT_MULTIPART_UPLOAD]
    /\ crash = NO_CRASH

\* ---------------------------------------------------- the body stream
\* The step is a successful preparation of request r, which becomes q.
PreparedAs(r, q) ==
    /\ r \in requests
    /\ ~r.prepared
    /\ requests' = (requests \ {r}) \cup {q}
    /\ q.prepared
    /\ q.tag = r.tag
    /\ q.part_number = r.part_number
    /\ q.num_times_prepared = r.num_times_prepared + 1

\* The part indexes the first preparation of PART k reads past before it
\* reads part k itself.
SkippedBefore(k) == (num_parts_read_from_stream + 1)..(k - 1)

\* C30: the body stream is consumed strictly serially and each part at most
\* once. When PART k is prepared for the first time (num_times_prepared = 0),
\* num_parts_read_from_stream is at most k-1 beforehand (and is where the
\* stream stands) and equals k afterwards, every part index skipped in
\* between has a populated ETag, the stream stands right after part k and
\* the request body is part k. A re-preparation of a retried request
\* (num_times_prepared > 0) leaves num_parts_read_from_stream, the stream
\* position and the request body unchanged. The stream never moves back,
\* never past the last part, and only a first preparation moves it.
C30_SerialStreamConsumption ==
    [][/\ \A r \in requests : \A q \in requests' \ requests :
            (r.tag = TAG_PART /\ PreparedAs(r, q))
            => IF r.num_times_prepared = 0
               THEN /\ num_parts_read_from_stream <= r.part_number - 1
                    /\ stream_position = num_parts_read_from_stream
                    /\ \A i \in SkippedBefore(r.part_number) : etag_list[i] # NO_ETAG
                    /\ num_parts_read_from_stream' = r.part_number
                    /\ stream_position' = r.part_number
                    /\ q.request_body = r.part_number
               ELSE /\ num_parts_read_from_stream' = num_parts_read_from_stream
                    /\ stream_position' = stream_position
                    /\ q.request_body = r.request_body
       /\ stream_position' >= stream_position
       /\ stream_position' <= total_num_parts
       /\ stream_position' # stream_position
          => \E r \in requests :
                /\ ~r.prepared
                /\ r.num_times_prepared = 0
                /\ r.tag \in {TAG_PART, TAG_COMPLETE_MULTIPART_UPLOAD}
                /\ r \notin requests'
      ]_vars

\* On a resumed put whose part 1 the server held, PART 2 was prepared (part
\* 1 skipped, part 2 read), retried and prepared again.
C30_Witness ==
    /\ resume_token
    /\ etag_list[1] # NO_ETAG
    /\ num_parts_read_from_stream = 2
    /\ stream_position = 2
    /\ \E r \in requests :
          /\ r.tag = TAG_PART
          /\ r.part_number = 2
          /\ r.prepared
          /\ r.num_times_prepared = 2
          /\ r.request_body = 2

\* ---------------------------------------------------------------- C31
\* The error request_finished recorded for the LIST_PARTS request. (The
\* handler stores it in create_multipart_upload_error_code.)
ListPartsError == error_codes.create_multipart_upload_error_code

\* The step is request_finished of the LIST_PARTS request, with an error or
\* with a response that does not parse.
ListPartsFailsNow ==
    /\ InFlight(TAG_LIST_PARTS) # {}
    /\ {q \in requests' : q.tag = TAG_LIST_PARTS} = {}
    /\ ListPartsError' # AWS_ERROR_SUCCESS

\* The LIST_PARTS request has finished with an error.
ListPartsFailed ==
    /\ resume_token
    /\ InFlight(TAG_LIST_PARTS) = {}
    /\ ListPartsError # AWS_ERROR_SUCCESS

\* No PART or COMPLETE request was created, and update creates none.
NoPartOrComplete ==
    /\ emitted[TAG_PART] = 0
    /\ emitted[TAG_COMPLETE_MULTIPART_UPLOAD] = 0
    /\ \A flags \in UpdateFlags :
          UpdateDecision(flags).tag
             \notin {TAG_PART, TAG_COMPLETE_MULTIPART_UPLOAD}

\* What the failing handler leaves alone and what it sets, apart from the
\* finish error.
ListPartsFailureFrame ==
    /\ flags_completed'[TAG_LIST_PARTS]
    /\ num_parts_sent' = num_parts_sent
    /\ num_parts_completed' = num_parts_completed

\* C31 as stated: when a LIST_PARTS request finishes with an error or an
\* unparsable response (LIST_PARTS_PARSE_FAILED), the meta request is marked
\* failed with that error, list_parts_completed becomes true, num_parts_sent
\* and num_parts_completed are unchanged, and no PART or COMPLETE request is
\* created afterwards.
C31_Original ==
    /\ [][ListPartsFailsNow
          => /\ finish_result' = [set |-> TRUE, error_code |-> ListPartsError']
             /\ ListPartsFailureFrame]_vars
    /\ [](ListPartsFailed => NoPartOrComplete)

\* C31 amended: the meta request is marked failed with that error unless it
\* had a finish result already (cancel or pause while the request was
\* outstanding), which then stands; the rest as stated.
C31_ListPartsFailure ==
    /\ [][ListPartsFailsNow
          => /\ finish_result' =
                  SetFailSynced(finish_result, ListPartsError')
             /\ finish_result'.set
             /\ ListPartsFailureFrame]_vars
    /\ [](ListPartsFailed => NoPartOrComplete)

\* The response of the LIST_PARTS request did not parse: the put has
\* finished with LIST_PARTS_PARSE_FAILED after aborting the upload, with no
\* part counted.
C31_Witness ==
    /\ ListPartsFailed
    /\ finish_result = [set |-> TRUE, error_code |-> AWS_ERROR_S3_LIST_PARTS_PARSE_FAILED]
    /\ flags_completed[TAG_LIST_PARTS]
    /\ num_parts_sent = 0
    /\ num_parts_completed = 0
    /\ flags_completed[TAG_ABORT_MULTIPART_UPLOAD]
    /\ finish_dispatched

\* ---------------------------------------------------------------- C32
\* The CREATE_MULTIPART_UPLOAD request of a fresh put succeeded at the HTTP
\* level with a response body that has no top-level UploadId. (The handler
\* stores the request's error code in list_parts_error_code.)
MissingUploadId ==
    /\ ~resume_token
    /\ error_codes.list_parts_error_code = AWS_ERROR_S3_MISSING_UPLOAD_ID

\* What holds after such a response, apart from the finish error.
MissingUploadIdEffects ==
    /\ upload_id = NULL
    /\ flags_completed[TAG_CREATE_MULTIPART_UPLOAD]
    /\ NoUploadRequests

\* C32 as stated: after a CREATE_MULTIPART_UPLOAD response without UploadId
\* the meta request fails with MISSING_UPLOAD_ID, upload_id remains null,
\* create_multipart_upload_completed is set, and no PART, COMPLETE or ABORT
\* request is created.
C32_Original ==
    MissingUploadId
    => /\ finish_result =
            [set |-> TRUE, error_code |-> AWS_ERROR_S3_MISSING_UPLOAD_ID]
       /\ MissingUploadIdEffects

\* C32 amended: the meta request fails with MISSING_UPLOAD_ID, or with
\* CANCELED or PAUSED when cancel or pause set the finish result while the
\* request was outstanding; the rest as stated.
C32_MissingUploadId ==
    MissingUploadId
    => /\ finish_result.set
       /\ finish_result.error_code \in
            {AWS_ERROR_S3_MISSING_UPLOAD_ID, AWS_ERROR_S3_CANCELED,
             AWS_ERROR_S3_PAUSED}
       /\ MissingUploadIdEffects

\* The put has finished with MISSING_UPLOAD_ID, without an abort request.
C32_Witness ==
    /\ MissingUploadId
    /\ finish_result.error_code = AWS_ERROR_S3_MISSING_UPLOAD_ID
    /\ finish_dispatched
    /\ emitted[TAG_ABORT_MULTIPART_UPLOAD] = 0

\* ---------------------------------------------------------------- C33
\* The step is request_finished of PART request r, whose response is an HTTP
\* success without an ETag header.
PartFinishesWithoutEtag(r) ==
    /\ r.tag = TAG_PART
    /\ RequestFinished(r, AWS_ERROR_SUCCESS, FALSE)

\* C33: a PART request that finishes with HTTP success but whose response
\* has no ETag header is treated as a failed part: num_parts_completed and
\* num_parts_failed are incremented, num_parts_successful and etag_list are
\* unchanged, the progress callback is not invoked for it, and the meta
\* request is marked failed.
C33_PartWithoutEtagFails ==
    [][\A r \in requests :
          PartFinishesWithoutEtag(r)
          => /\ num_parts_completed' = num_parts_completed + 1
             /\ num_parts_failed' = num_parts_failed + 1
             /\ num_parts_successful' = num_parts_successful
             /\ etag_list' = etag_list
             /\ \A i \in 1..Len(FinishedRequestEvents(r, AWS_ERROR_SUCCESS, FALSE)) :
                   FinishedRequestEvents(r, AWS_ERROR_SUCCESS, FALSE)[i]
                      # EV_PROGRESS_CALLBACK
             /\ finish_result'.set
             /\ finish_result'.error_code # AWS_ERROR_SUCCESS
      ]_vars

\* A part's response had no ETag header while nothing else had failed: the
\* put is failed with the error the handler uses for it, one part is
\* counted as failed and its ETag slot is empty.
C33_Witness ==
    /\ finish_result = [set |-> TRUE, error_code |-> AWS_ERROR_S3_MISSING_UPLOAD_ID]
    /\ error_codes.list_parts_error_code = AWS_ERROR_SUCCESS
    /\ num_parts_failed = 1
    /\ num_parts_completed >= 1
    /\ \E i \in Parts : etag_list[i] = NO_ETAG

\* ---------------------------------------------------------------- C34
\* update, called now with either flag, returns false and creates no request.
UpdateReturnsFalse ==
    \A flags \in UpdateFlags :
        /\ ~UpdateDecision(flags).work_remaining
        /\ UpdateDecision(flags).tag = TAG_NONE
        /\ ~UpdateDecision(flags).fatal

\* C34: the terminal state is stable. Once update has returned false (no
\* work remaining), every later update call, with either flag and after any
\* further request_finished, pause or cancel, returns false and creates no
\* request.
C34_TerminalStateStable ==
    /\ [](finish_dispatched => UpdateReturnsFalse)
    /\ [][finish_dispatched
          => /\ finish_dispatched'
             /\ emitted' = emitted]_vars

\* update returned false on a paused resumed put while the LIST_PARTS
\* request was outstanding; the request has finished since.
C34_Witness ==
    /\ finish_dispatched
    /\ resume_token
    /\ finish_result.error_code = AWS_ERROR_S3_PAUSED
    /\ emitted[TAG_LIST_PARTS] = 1
    /\ emitted[TAG_ABORT_MULTIPART_UPLOAD] = 0
    /\ flags_completed[TAG_LIST_PARTS]
    /\ requests = {}
    /\ num_parts_sent >= 1
    /\ out_resume_token.written

\* ---------------------------------------------------------------- C35
\* The step calls the user's headers callback (the handler clears the
\* pointer right after the call).
HeadersCallbackInvoked == headers_callback /\ ~headers_callback'

\* The step is request_finished of the COMPLETE_MULTIPART_UPLOAD request,
\* which finished with SUCCESS.
CompleteSucceedsNow ==
    /\ InFlight(TAG_COMPLETE_MULTIPART_UPLOAD) # {}
    /\ {q \in requests' : q.tag = TAG_COMPLETE_MULTIPART_UPLOAD} = {}
    /\ ~complete_succeeded
    /\ complete_succeeded'

\* The callback is called at most once, and only by the handler of a
\* COMPLETE_MULTIPART_UPLOAD request that finished with SUCCESS.
HeadersCallbackOnceOnComplete ==
    [][/\ HeadersCallbackInvoked => CompleteSucceedsNow
       /\ ~headers_callback => ~headers_callback']_vars

\* C35: the user's headers callback is invoked at most once per put, only
\* when the COMPLETE_MULTIPART_UPLOAD request finished successfully, never
\* for any other request tag and never on a failed, cancelled or paused
\* upload; if the callback reports an error, the meta request is marked
\* failed with that error.
C35_HeadersCallback ==
    /\ HeadersCallbackOnceOnComplete
    /\ [][HeadersCallbackInvoked
          => /\ ~HasFinishResult(finish_result)
             /\ error_codes'.complete_multipart_upload_error_code = CALLBACK_ERROR
                => finish_result' = [set |-> TRUE, error_code |-> CALLBACK_ERROR]
      ]_vars

\* ---------------------------------------------------------------- C36
\* The JSON document pause serialises from the token's fields: the two
\* strings as strings, (double)part_size and (double)total_num_parts as
\* numbers. (The conversions are exact below 2^53, far above the sizes
\* explored; a whole number is written without a fraction.)
TokenAsJson(token) ==
    JsonToken(JsonString(token.type), JsonString(token.multipart_upload_id),
              JsonNumber(token.partition_size, 0),
              JsonNumber(token.total_num_parts, 0))

\* The token, parsed by s_parse_resume_info_from_token, yields the put's
\* upload id, part size and number of parts, and s_load_persistable_state
\* accepts them for the put's content_length.
TokenRoundTrips(token) ==
    LET parsed == ParseResumeInfoFromToken(TokenAsJson(token)) IN
    /\ parsed.error = AWS_ERROR_SUCCESS
    /\ parsed.upload_id = upload_id
    /\ parsed.part_size = part_size
    /\ parsed.total_num_parts = total_num_parts
    /\ LoadPersistableStateError(content_length, parsed.part_size,
                                 parsed.total_num_parts) = AWS_ERROR_SUCCESS

\* pause wrote a token for a put whose sizes are within the limits.
TokenWritten ==
    /\ out_resume_token.written
    /\ out_resume_token.create_completed
    /\ part_size >= g_s3_min_upload_part_size
    /\ total_num_parts <= g_s3_max_num_upload_parts

\* C36: for every put with part_size at least the minimum upload part size
\* and total_num_parts at most the maximum, the token written by pause,
\* parsed by the resume-token parser, yields the same upload id, part size
\* and total_num_parts, and passes validation against the same
\* content_length.
C36_TokenRoundTrip == TokenWritten => TokenRoundTrips(out_resume_token.token)

\* The round trip of the tokens written while the put had an upload id.
TokenRoundTripWithUploadId ==
    (TokenWritten /\ upload_id # NULL) => TokenRoundTrips(out_resume_token.token)

\* The round trip of the token pause would write for a constructed put that
\* has an upload id, for every content length and part size.
ConstructedTokenRoundTrips ==
    (construction = CONSTRUCTED /\ upload_id # NULL)
    => TokenRoundTrips(ResumeToken(upload_id))

\* ---------------------------------------------------------------- C37
\* A fresh put has completed successfully.
FreshPutSucceeded ==
    /\ construction = CONSTRUCTED
    /\ ~resume_token
    /\ finish_dispatched
    /\ finish_result = [set |-> TRUE, error_code |-> AWS_ERROR_SUCCESS]

\* C37: for a fresh put that completes successfully with a progress
\* callback set, the sum of bytes_transferred over all progress callback
\* invocations equals content_length, for every content_length and part_size
\* (including when the last part is shorter than part_size).
C37_ProgressSum == FreshPutSucceeded => bytes_transferred = content_length

\* What the callbacks of a completed fresh put add up to: one part_size
\* for each part.
ProgressSumCountsWholeParts ==
    FreshPutSucceeded => bytes_transferred = total_num_parts * part_size

\* ---------------------------------------------------------------- C38
\* C38: whenever pause serialises a resume token, upload_id is non-null:
\* there is no reachable state in which create_multipart_upload_completed is
\* true while upload_id is null (pause may be called in any state), also
\* after a failed create-multipart-upload or a response without UploadId;
\* no pause call has read a null upload_id.
C38_UploadIdNonNullAtPause ==
    /\ flags_completed[TAG_CREATE_MULTIPART_UPLOAD] => upload_id # NULL
    /\ crash # CRASH_PAUSE_NULL_UPLOAD_ID
    /\ out_resume_token.create_completed
       => out_resume_token.token.multipart_upload_id # GARBAGE

\* ---------------------------------------------------------------- C39
\* How far beyond total_num_parts the part numbers of a ListParts page go.
MaxStrayParts == 1
\* Part numbers outside [1, total_num_parts] a ListParts page can report:
\* the server lists what was uploaded under the upload id, whatever the
\* resume token says.
StrayPartNumbers ==
    {0} \cup ((total_num_parts + 1)..(total_num_parts + MaxStrayParts))

\* "info->part_number - 1". For part number 0 the index is -1 here; in
\* unsigned arithmetic it wraps to the largest value of the type, which is
\* outside the lists just the same.
PartInfoIndex(part_number) == part_number - 1

\* The slots of the num_parts elements the constructor allocates for
\* etag_list and for checksums_list.
ListIndexes == 0..(total_num_parts - 1)

\* s_process_part_info stores a checksum for every part info when an
\* algorithm is configured, at checksums_list[info->part_number - 1], with
\* no test of the index.
WritesChecksumAt(part_number) ==
    IF checksum_algorithm # "NONE" THEN {PartInfoIndex(part_number)} ELSE {}

\* aws_array_list_set_at on the static etag_list: an index beyond the
\* list's capacity is refused, and s_process_part_info ignores the result.
WritesEtagAt(part_number) ==
    {PartInfoIndex(part_number)} \cap ListIndexes

\* The response to a LIST_PARTS request reports, next to the page of the
\* parts in range, the part number stray. A store outside checksums_list is
\* undefined: the process dies in it (trapped), or the store lands outside
\* the put's fields and the handler goes on.
ListPartsReportsStray(r, stray, trapped) ==
    /\ crash = NO_CRASH
    /\ r \in requests
    /\ r.prepared
    /\ r.tag = TAG_LIST_PARTS
    /\ IF trapped /\ ~(WritesChecksumAt(stray) \subseteq ListIndexes)
       THEN /\ crash' = CRASH_PROCESS_PART_INFO
            /\ UNCHANGED <<cfg_vars, finish_result, headers_callback, put_vars,
                           requests, obs_vars>>
       ELSE /\ requests' = requests \ {r}
            /\ FinishedListPartsPage(r, finish_result, AWS_ERROR_SUCCESS, TRUE,
                                     PageOf(r.marker) \cup {stray})
            /\ UNCHANGED <<cfg_vars, flags_sent, next_part_number,
                           num_parts_read_from_stream, stream_position, crash,
                           emitted, parts_emitted, finish_dispatched,
                           out_resume_token, pause_log>>

\* A resumed put.
InitListParts == Init /\ resume_token

NextListParts ==
    \/ Next
    \/ \E r \in requests, stray \in StrayPartNumbers, trapped \in BOOLEAN :
          ListPartsReportsStray(r, stray, trapped)

\* A resumed put whose ListParts pages can report parts out of range.
SpecListParts == InitListParts /\ [][NextListParts]_vars

\* The counters and the ETag slots after request_finished has handled the
\* page of r without the stray part number.
StrayLeftNoTrace(r) ==
    LET etags == ProcessPartInfoEtags(PageOf(r.marker))
        sweep == ~HasMoreResults(r.marker)
    IN
    /\ etag_list' = etags
    /\ num_parts_sent' =
         num_parts_sent + (IF sweep THEN NumPopulated(etags) ELSE 0)
    /\ num_parts_completed' =
         num_parts_completed + (IF sweep THEN NumPopulated(etags) ELSE 0)

\* C39: while the ListParts responses of a resume are processed, every
\* write to checksums_list and etag_list uses an index in
\* [0, total_num_parts): a part number reported by the server outside
\* [1, total_num_parts] is never used to index these arrays and never
\* changes num_parts_sent or num_parts_completed.
C39_PartNumbersInRange ==
    [][\A r \in requests, stray \in StrayPartNumbers, trapped \in BOOLEAN :
          ListPartsReportsStray(r, stray, trapped)
          => /\ WritesChecksumAt(stray) = {}
             /\ WritesEtagAt(stray) = {}
             /\ StrayLeftNoTrace(r)]_vars

\* Without a checksum algorithm a part number out of range writes nothing
\* and changes neither the ETag slots nor the counters.
StrayIgnoredWithoutChecksums ==
    [][\A r \in requests, stray \in StrayPartNumbers, trapped \in BOOLEAN :
          (checksum_algorithm = "NONE" /\ ListPartsReportsStray(r, stray, trapped))
          => /\ WritesChecksumAt(stray) = {}
             /\ WritesEtagAt(stray) = {}
             /\ StrayLeftNoTrace(r)]_vars

\* Whatever the algorithm, a part number out of range reaches no ETag slot,
\* and when the process survives the store the counters are those of the
\* page without it.
StrayNeverCounted ==
    [][\A r \in requests, stray \in StrayPartNumbers, trapped \in BOOLEAN :
          (ListPartsReportsStray(r, stray, trapped) /\ crash' = NO_CRASH)
          => /\ WritesEtagAt(stray) = {}
             /\ StrayLeftNoTrace(r)]_vars

====
